---- MODULE Spec2Model ----
(***************************************************************************)
(* A model of the traffic-signal simulation of src/main.py: the signal     *)
(* controller (fixed cycle and adaptive switching), the vehicles'          *)
(* kinematics and the main loop that drives them.                          *)
(*                                                                         *)
(* Units.  Time is counted in ticks of 1/FPS second (one rendered frame at *)
(* multiplier 1.0), so every duration of Config is an integer and          *)
(* step_scale = dt_sim * FPS is dt_sim itself.  Lengths are counted in     *)
(* tenths of a pixel and speeds in tenths of a pixel per frame, so that    *)
(* CAR_ACCELERATION = 0.10 is 1.  Arithmetic is exact: the rounding of     *)
(* Python's floats is not modelled.                                        *)
(***************************************************************************)
EXTENDS Integers, Sequences, FiniteSets, TLC

VARIABLES
    sim_time,           \* TrafficSimulation.sim_time
    show_menu,          \* TrafficSimulation.show_menu
    running,            \* TrafficSimulation.running
    simulation_speed,   \* TrafficSimulation.simulation_speed (1 or 2)
    incident_active,    \* TrafficSimulation.incident_active
    ambulance_mode,     \* TrafficSimulation.ambulance_mode
    cars,               \* TrafficSimulation.cars
    signal_controller,  \* TrafficSimulation.signal_controller
    metrics,            \* TrafficSimulation.metrics
    Config,             \* the signal timings of class Config
    fixed_metrics_file, \* the file fixed_metrics.json
    cached_fixed_metrics, \* TrafficSimulation.cached_fixed_metrics
    exit_status         \* "alive", or how the process ended

vars == <<sim_time, show_menu, running, simulation_speed,
          incident_active, ambulance_mode, cars, signal_controller, metrics,
          Config, fixed_metrics_file, cached_fixed_metrics, exit_status>>

(***************************************************************************)
(* Config                                                                  *)
(***************************************************************************)
FPS == 60
PX == 10

WINDOW_WIDTH == 1200 * PX
WINDOW_HEIGHT == 800 * PX
LANE_WIDTH == 40 * PX
INTERSECTION_SIZE == 200 * PX
CAR_MAX_SPEED == 40
CAR_ACCELERATION == 1
SAFE_DISTANCE == 35 * PX

FIXED_GREEN_TIME == 20 * FPS
FIXED_YELLOW_TIME == 3 * FPS
FIXED_ALL_RED_TIME == 2 * FPS

AI_UPDATE_INTERVAL == 2 * FPS
MIN_GREEN_TIME == 12 * FPS
MAX_GREEN_TIME == 50 * FPS
COOLDOWN_TIME == 6 * FPS
ANTI_STARVATION_TIME == 120 * FPS

\* Pressures are kept as fractions num/den.  HYSTERESIS_MARGIN = 0.5 is
\* HYSTERESIS_NUM / HYSTERESIS_DEN; PRESSURE_ALPHA = 0.3 and PRESSURE_BETA =
\* 0.4 are the numerators over 10.
HYSTERESIS_NUM == 1
HYSTERESIS_DEN == 2
PRESSURE_ALPHA_10 == 3
PRESSURE_BETA_10 == 4

SignalState == {"GREEN", "YELLOW", "RED", "ALL_RED"}
Direction == {"NORTH", "SOUTH", "EAST", "WEST"}
Roads == {"main", "side"}

\* The signal timings as class Config has them.  Every operator below reads
\* the timings by name, so it models the program under these values.
DefaultConfig ==
    [FIXED_GREEN_TIME |-> FIXED_GREEN_TIME,
     FIXED_YELLOW_TIME |-> FIXED_YELLOW_TIME,
     FIXED_ALL_RED_TIME |-> FIXED_ALL_RED_TIME,
     MIN_GREEN_TIME |-> MIN_GREEN_TIME,
     MAX_GREEN_TIME |-> MAX_GREEN_TIME]

(***************************************************************************)
(* Values of JSON and of Python, and the file fixed_metrics.json           *)
(***************************************************************************)
\* A value json.load can return.  Every value has all the fields, those its
\* type does not use being blank: a number is a fraction num/den, a list is
\* known by its length, an object by its keys and their values.
Json(type, number, string, length, fields) ==
    [type |-> type, number |-> number, string |-> string, length |-> length,
     fields |-> fields]

JsonNull == Json("null", [num |-> 0, den |-> 1], "", 0, <<>>)
JsonNumber(num, den) == Json("number", [num |-> num, den |-> den], "", 0, <<>>)
JsonString(s) == Json("string", [num |-> 0, den |-> 1], s, 0, <<>>)
JsonList(n) == Json("list", [num |-> 0, den |-> 1], "", n, <<>>)
JsonObject(fields) == Json("object", [num |-> 0, den |-> 1], "", 0, fields)

\* None is what json.load gives for null.
None == JsonNull

\* bool(v) of Python.
Truthy(v) ==
    IF v.type = "null" THEN FALSE
    ELSE IF v.type = "number" THEN v.number.num # 0
    ELSE IF v.type = "string" THEN v.string # ""
    ELSE IF v.type = "list" THEN v.length > 0
    ELSE DOMAIN v.fields # {}

\* The file: absent, unreadable, not JSON, or holding a JSON value.
File(state, value) == [state |-> state, value |-> value]
AbsentFile == File("absent", None)

(***************************************************************************)
(* Bounds of the exploration                                               *)
(***************************************************************************)
\* A run is followed for MaxTime ticks of ordinary frames.
MaxTime == 2400
\* Time passes in the menu, and an adaptive run is abandoned with ESC, up to
\* this time.
MaxMenuTime == 120
\* Ordinary frame times of the controller's exploration: a frame of one
\* second, at multiplier 1.0 and at 2.0.
CtlDts == {FPS, 2 * FPS}
\* One stall of the process (a frame of two minutes) may begin between
\* StallFrom and StallTo.
StallDt == 120 * FPS
StallFrom == 900
StallTo == 1200

Max(a, b) == IF a >= b THEN a ELSE b
Min(a, b) == IF a <= b THEN a ELSE b
Abs(a) == IF a >= 0 THEN a ELSE -a

(***************************************************************************)
(* Fractions num/den with den > 0, for the pressures                       *)
(***************************************************************************)
RECURSIVE GCD(_, _)
GCD(a, b) == IF b = 0 THEN a ELSE GCD(b, a % b)

\* n/d in lowest terms (n >= 0, d > 0).
Frac(n, d) == LET g == GCD(n, d) IN [num |-> n \div g, den |-> d \div g]
FracGT(a, b) == a.num * b.den > b.num * a.den
FracEq(a, b) == a.num * b.den = b.num * a.den
FracAdd(a, b) == Frac(a.num * b.den + b.num * a.den, a.den * b.den)

(***************************************************************************)
(* SignalController                                                        *)
(*                                                                         *)
(* The controller is a record of the object's fields.  Four more fields    *)
(* only observe it.  Of the last call of update: log lists what it ran     *)
(* ("switching" for handle_signal_switching, "decide" for                  *)
(* make_ai_decision, "starve" for the anti-starvation branch, "initiate"   *)
(* for initiate_signal_switch) and active_p, waiting_p are the pressures   *)
(* make_ai_decision compared.  green_before is the road that was GREEN at  *)
(* the last call of initiate_signal_switch.                                *)
(***************************************************************************)
HISTORY_MAXLEN == 200

\* A controller whose clocks start at 0 whatever the start time given.
SignalController_FromZero(controller_type, start_sim_time) ==
    [controller_type   |-> controller_type,
     main_signal       |-> "GREEN",
     side_signal       |-> "RED",
     signal_timer      |-> 0,
     current_green_time |-> 0,
     last_ai_update    |-> 0,
     last_switch_time  |-> -COOLDOWN_TIME,
     main_last_green   |-> 0,
     side_last_green   |-> 0,
     switching         |-> FALSE,
     switch_stage      |-> 0,
     switch_start_time |-> 0,
     arrival_history   |-> [r \in Roads |-> <<>>],
     log               |-> <<>>,
     green_before      |-> "none",
     active_p          |-> Frac(0, 1),
     waiting_p         |-> Frac(0, 1)]

SignalController(controller_type, start_sim_time) ==
    [controller_type   |-> controller_type,
     main_signal       |-> "GREEN",
     side_signal       |-> "RED",
     signal_timer      |-> 0,
     current_green_time |-> 0,
     last_ai_update    |-> start_sim_time,
     last_switch_time  |-> start_sim_time - COOLDOWN_TIME,
     main_last_green   |-> start_sim_time,
     side_last_green   |-> start_sim_time,
     switching         |-> FALSE,
     switch_stage      |-> 0,
     switch_start_time |-> start_sim_time,
     arrival_history   |-> [r \in Roads |-> <<>>],
     log               |-> <<>>,
     green_before      |-> "none",
     active_p          |-> Frac(0, 1),
     waiting_p         |-> Frac(0, 1)]

\* self.signal_controller = None
NoController == [SignalController("none", 0) EXCEPT !.main_signal = "RED"]

get_signal_state(c, road) ==
    IF road = "main" THEN c.main_signal ELSE c.side_signal

CycleLength ==
    FIXED_GREEN_TIME * 2 + FIXED_YELLOW_TIME * 2 + FIXED_ALL_RED_TIME * 2

\* FixedPhase with the side-green branch still setting main GREEN.
FixedPhase_BothGreen(t) ==
    LET pos == t % CycleLength IN
    IF pos < FIXED_GREEN_TIME THEN <<"GREEN", "RED">>
    ELSE IF pos < FIXED_GREEN_TIME + FIXED_YELLOW_TIME THEN <<"YELLOW", "RED">>
    ELSE IF pos < FIXED_GREEN_TIME + FIXED_YELLOW_TIME + FIXED_ALL_RED_TIME
        THEN <<"ALL_RED", "ALL_RED">>
    ELSE IF pos < FIXED_GREEN_TIME * 2 + FIXED_YELLOW_TIME + FIXED_ALL_RED_TIME
        THEN <<"GREEN", "GREEN">>
    ELSE IF pos < FIXED_GREEN_TIME * 2 + FIXED_YELLOW_TIME * 2 + FIXED_ALL_RED_TIME
        THEN <<"RED", "YELLOW">>
    ELSE <<"ALL_RED", "ALL_RED">>

\* FixedPhase with the yellow phases as long as the all-red phases.
FixedPhase_ShortYellow(t) ==
    LET pos == t % CycleLength IN
    IF pos < FIXED_GREEN_TIME THEN <<"GREEN", "RED">>
    ELSE IF pos < FIXED_GREEN_TIME + FIXED_ALL_RED_TIME THEN <<"YELLOW", "RED">>
    ELSE IF pos < FIXED_GREEN_TIME + FIXED_YELLOW_TIME + FIXED_ALL_RED_TIME
        THEN <<"ALL_RED", "ALL_RED">>
    ELSE IF pos < FIXED_GREEN_TIME * 2 + FIXED_YELLOW_TIME + FIXED_ALL_RED_TIME
        THEN <<"RED", "GREEN">>
    ELSE IF pos < FIXED_GREEN_TIME * 2 + FIXED_YELLOW_TIME + FIXED_ALL_RED_TIME * 2
        THEN <<"RED", "YELLOW">>
    ELSE <<"ALL_RED", "ALL_RED">>

\* The pair <<main, side>> the fixed schedule shows at timer value t.
FixedPhase(t) ==
    LET pos == t % CycleLength IN
    IF pos < FIXED_GREEN_TIME THEN <<"GREEN", "RED">>
    ELSE IF pos < FIXED_GREEN_TIME + FIXED_YELLOW_TIME THEN <<"YELLOW", "RED">>
    ELSE IF pos < FIXED_GREEN_TIME + FIXED_YELLOW_TIME + FIXED_ALL_RED_TIME
        THEN <<"ALL_RED", "ALL_RED">>
    ELSE IF pos < FIXED_GREEN_TIME * 2 + FIXED_YELLOW_TIME + FIXED_ALL_RED_TIME
        THEN <<"RED", "GREEN">>
    ELSE IF pos < FIXED_GREEN_TIME * 2 + FIXED_YELLOW_TIME * 2 + FIXED_ALL_RED_TIME
        THEN <<"RED", "YELLOW">>
    ELSE <<"ALL_RED", "ALL_RED">>

update_fixed_signals(c) ==
    [c EXCEPT !.main_signal = FixedPhase(c.signal_timer)[1],
              !.side_signal = FixedPhase(c.signal_timer)[2]]

initiate_signal_switch(c, t) ==
    LET c1 == [c EXCEPT !.switching = TRUE,
                        !.switch_stage = 0,
                        !.switch_start_time = t,
                        !.last_switch_time = t,
                        !.log = Append(@, "initiate")]
        c2 == IF c1.main_signal = "GREEN"
                  THEN [c1 EXCEPT !.main_last_green = t, !.green_before = "main"]
              ELSE IF c1.side_signal = "GREEN"
                  THEN [c1 EXCEPT !.side_last_green = t, !.green_before = "side"]
              ELSE [c1 EXCEPT !.green_before = "none"]
    IN  [c2 EXCEPT !.current_green_time = 0]

\* GrantGreen with the comparison of the stamps reversed.
GrantGreen_Reversed(c) ==
    IF c.side_last_green > c.main_last_green
    THEN [c EXCEPT !.side_signal = "GREEN", !.main_signal = "RED"]
    ELSE [c EXCEPT !.main_signal = "GREEN", !.side_signal = "RED"]

\* GrantGreen that sets the new GREEN and leaves the other road as it is.
GrantGreen_OnlyGreen(c) ==
    IF c.side_last_green < c.main_last_green
    THEN [c EXCEPT !.side_signal = "GREEN"]
    ELSE [c EXCEPT !.main_signal = "GREEN"]

\* Stage 2 of the switch: who gets the new green.
GrantGreen(c) ==
    IF c.side_last_green < c.main_last_green
    THEN [c EXCEPT !.side_signal = "GREEN", !.main_signal = "RED"]
    ELSE [c EXCEPT !.main_signal = "GREEN", !.side_signal = "RED"]

\* handle_signal_switching going from the yellow stage straight to the grant.
handle_signal_switching_SkipAllRed(c0, t) ==
    LET c == [c0 EXCEPT !.log = Append(@, "switching")]
        elapsed == t - c.switch_start_time
    IN
    IF c.switch_stage = 0 THEN
        LET y == IF c.main_signal = "GREEN" THEN [c EXCEPT !.main_signal = "YELLOW"]
                 ELSE IF c.side_signal = "GREEN" THEN [c EXCEPT !.side_signal = "YELLOW"]
                 ELSE c
        IN  IF elapsed >= FIXED_YELLOW_TIME
            THEN [y EXCEPT !.switch_stage = 2, !.switch_start_time = t]
            ELSE y
    ELSE IF c.switch_stage = 2 THEN
        [GrantGreen(c) EXCEPT !.switching = FALSE, !.current_green_time = 0]
    ELSE c

\* handle_signal_switching that does not stamp the entry of the all-red
\* stage, whose duration is then counted from the initiation.
handle_signal_switching_NoRestamp(c0, t) ==
    LET c == [c0 EXCEPT !.log = Append(@, "switching")]
        elapsed == t - c.switch_start_time
    IN
    IF c.switch_stage = 0 THEN
        LET y == IF c.main_signal = "GREEN" THEN [c EXCEPT !.main_signal = "YELLOW"]
                 ELSE IF c.side_signal = "GREEN" THEN [c EXCEPT !.side_signal = "YELLOW"]
                 ELSE c
        IN  IF elapsed >= FIXED_YELLOW_TIME
            THEN [y EXCEPT !.switch_stage = 1]
            ELSE y
    ELSE IF c.switch_stage = 1 THEN
        LET r == [c EXCEPT !.main_signal = "ALL_RED", !.side_signal = "ALL_RED"]
        IN  IF elapsed >= FIXED_ALL_RED_TIME
            THEN [r EXCEPT !.switch_stage = 2, !.switch_start_time = t]
            ELSE r
    ELSE IF c.switch_stage = 2 THEN
        [GrantGreen(c) EXCEPT !.switching = FALSE, !.current_green_time = 0]
    ELSE c

handle_signal_switching(c0, t) ==
    LET c == [c0 EXCEPT !.log = Append(@, "switching")]
        elapsed == t - c.switch_start_time
    IN
    IF c.switch_stage = 0 THEN
        LET y == IF c.main_signal = "GREEN" THEN [c EXCEPT !.main_signal = "YELLOW"]
                 ELSE IF c.side_signal = "GREEN" THEN [c EXCEPT !.side_signal = "YELLOW"]
                 ELSE c
        IN  IF elapsed >= FIXED_YELLOW_TIME
            THEN [y EXCEPT !.switch_stage = 1, !.switch_start_time = t]
            ELSE y
    ELSE IF c.switch_stage = 1 THEN
        LET r == [c EXCEPT !.main_signal = "ALL_RED", !.side_signal = "ALL_RED"]
        IN  IF elapsed >= FIXED_ALL_RED_TIME
            THEN [r EXCEPT !.switch_stage = 2, !.switch_start_time = t]
            ELSE r
    ELSE IF c.switch_stage = 2 THEN
        [GrantGreen(c) EXCEPT !.switching = FALSE, !.current_green_time = 0]
    ELSE c

(***************************************************************************)
(* Car: the record of one vehicle's fields (exit_time None is -1)          *)
(***************************************************************************)
Car(x, y, direction, is_ambulance, spawn_sim_time) ==
    [x |-> x, y |-> y, direction |-> direction, speed |-> 0,
     max_speed |-> CAR_MAX_SPEED, is_ambulance |-> is_ambulance,
     spawn_time |-> spawn_sim_time, waiting_time |-> 0,
     is_stopped |-> FALSE, exit_time |-> -1]

CX == WINDOW_WIDTH \div 2
CY == WINDOW_HEIGHT \div 2

RoadOf(direction) == IF direction \in {"NORTH", "SOUTH"} THEN "main" ELSE "side"

\* abs(car.x - cx) on the main road, abs(car.y - cy) on the side road.
LateralOffset(car) ==
    IF RoadOf(car.direction) = "main" THEN Abs(car.x - CX) ELSE Abs(car.y - CY)

(***************************************************************************)
(* The pressure estimate                                                   *)
(***************************************************************************)
get_queue_length(cs, road) ==
    Cardinality({i \in 1..Len(cs) :
        /\ RoadOf(cs[i].direction) = road
        /\ cs[i].is_stopped
        /\ 2 * LateralOffset(cs[i]) < LANE_WIDTH * 3})

\* The indices of the vehicles get_average_wait_time averages over.
WaitBand(cs, road) ==
    {i \in 1..Len(cs) :
        /\ RoadOf(cs[i].direction) = road
        /\ LateralOffset(cs[i]) < LANE_WIDTH * 2}

RECURSIVE SumWaits(_, _)
SumWaits(cs, idx) ==
    IF idx = {} THEN 0
    ELSE LET i == CHOOSE j \in idx : TRUE
         IN  cs[i].waiting_time + SumWaits(cs, idx \ {i})

ARRIVAL_WINDOW == 10 * FPS
WAIT_NORM == 60 * FPS

\* Arrivals per second, as a fraction over the 10 seconds of the window.
get_arrival_rate(c, road, t) ==
    LET hist == c.arrival_history[road] IN
    IF Len(hist) < 2 THEN Frac(0, 10)
    ELSE Frac(Cardinality({i \in 1..Len(hist) : t - hist[i] < ARRIVAL_WINDOW}), 10)

\* q + ALPHA * (recent / 10) * 10 + BETA * min(avg_wait / 60, 1) * 10 as a
\* fraction over 10 * WAIT_NORM * n, where n vehicles wait W ticks in all
\* (avg_wait = W / n ticks; n = 1 and W = 0 when no vehicle qualifies).
calculate_pressure(c, cs, road, t) ==
    LET q == get_queue_length(cs, road)
        recent == get_arrival_rate(c, road, t).num
        band == WaitBand(cs, road)
        n == IF band = {} THEN 1 ELSE Cardinality(band)
        W == SumWaits(cs, band)
    IN  Frac(q * 10 * WAIT_NORM * n
               + PRESSURE_ALPHA_10 * recent * WAIT_NORM * n
               + PRESSURE_BETA_10 * 10 * Min(W, WAIT_NORM * n),
             10 * WAIT_NORM * n)

record_arrival(c, road, t) ==
    LET hist == c.arrival_history[road]
        kept == IF Len(hist) >= HISTORY_MAXLEN THEN Tail(hist) ELSE hist
    IN  [c EXCEPT !.arrival_history[road] = Append(kept, t)]

\* ExceedsMargin with >= for >.
ExceedsMargin_NonStrict(waiting_p, active_p) ==
    ~FracGT(FracAdd(active_p, Frac(HYSTERESIS_NUM, HYSTERESIS_DEN)), waiting_p)

\* waiting_p > active_p + HYSTERESIS_MARGIN
ExceedsMargin(waiting_p, active_p) ==
    FracGT(waiting_p, FracAdd(active_p, Frac(HYSTERESIS_NUM, HYSTERESIS_DEN)))

\* make_ai_decision without the MAX_GREEN_TIME test.
make_ai_decision_NoCeiling(c0, cs, t) ==
    LET main_p == calculate_pressure(c0, cs, "main", t)
        side_p == calculate_pressure(c0, cs, "side", t)
        active_is_main == (c0.main_signal = "GREEN")
        active_p == IF active_is_main THEN main_p ELSE side_p
        waiting_p == IF active_is_main THEN side_p ELSE main_p
        c == [c0 EXCEPT !.log = Append(@, "decide"),
                        !.active_p = active_p, !.waiting_p = waiting_p]
        time_since_switch == t - c.last_switch_time
        should_switch ==
            /\ c.current_green_time >= MIN_GREEN_TIME
            /\ time_since_switch >= COOLDOWN_TIME
            /\ ExceedsMargin(waiting_p, active_p)
    IN  IF should_switch THEN initiate_signal_switch(c, t) ELSE c

\* make_ai_decision with the MAX_GREEN_TIME test passing only when the
\* waiting road has some pressure.
make_ai_decision_MaxIfWaiting(c0, cs, t) ==
    LET main_p == calculate_pressure(c0, cs, "main", t)
        side_p == calculate_pressure(c0, cs, "side", t)
        active_is_main == (c0.main_signal = "GREEN")
        active_p == IF active_is_main THEN main_p ELSE side_p
        waiting_p == IF active_is_main THEN side_p ELSE main_p
        c == [c0 EXCEPT !.log = Append(@, "decide"),
                        !.active_p = active_p, !.waiting_p = waiting_p]
        time_since_switch == t - c.last_switch_time
        should_switch ==
            \/ /\ c.current_green_time >= MIN_GREEN_TIME
               /\ time_since_switch >= COOLDOWN_TIME
               /\ ExceedsMargin(waiting_p, active_p)
            \/ /\ c.current_green_time >= MAX_GREEN_TIME
               /\ FracGT(waiting_p, Frac(0, 1))
    IN  IF should_switch THEN initiate_signal_switch(c, t) ELSE c

make_ai_decision(c0, cs, t) ==
    LET main_p == calculate_pressure(c0, cs, "main", t)
        side_p == calculate_pressure(c0, cs, "side", t)
        active_is_main == (c0.main_signal = "GREEN")
        active_p == IF active_is_main THEN main_p ELSE side_p
        waiting_p == IF active_is_main THEN side_p ELSE main_p
        c == [c0 EXCEPT !.log = Append(@, "decide"),
                        !.active_p = active_p, !.waiting_p = waiting_p]
        time_since_switch == t - c.last_switch_time
        should_switch ==
            \/ /\ c.current_green_time >= MIN_GREEN_TIME
               /\ time_since_switch >= COOLDOWN_TIME
               /\ ExceedsMargin(waiting_p, active_p)
            \/ c.current_green_time >= MAX_GREEN_TIME
    IN  IF should_switch THEN initiate_signal_switch(c, t) ELSE c

\* Starved with MAX_GREEN_TIME where the code has MIN_GREEN_TIME.
Starved_MaxGreen(c, t) ==
    LET active == IF c.main_signal = "GREEN" THEN "main" ELSE "side"
        waiting == IF active = "main" THEN "side" ELSE "main"
        waiting_last == IF waiting = "main" THEN c.main_last_green
                        ELSE c.side_last_green
    IN  /\ t - waiting_last > ANTI_STARVATION_TIME
        /\ c.current_green_time > MAX_GREEN_TIME

\* Starved without the test of the current green.
Starved_NoMinimum(c, t) ==
    LET active == IF c.main_signal = "GREEN" THEN "main" ELSE "side"
        waiting == IF active = "main" THEN "side" ELSE "main"
        waiting_last == IF waiting = "main" THEN c.main_last_green
                        ELSE c.side_last_green
    IN  t - waiting_last > ANTI_STARVATION_TIME

\* The anti-starvation test of update_ai_signals.
Starved(c, t) ==
    LET active == IF c.main_signal = "GREEN" THEN "main" ELSE "side"
        waiting == IF active = "main" THEN "side" ELSE "main"
        waiting_last == IF waiting = "main" THEN c.main_last_green
                        ELSE c.side_last_green
        waiting_time == t - waiting_last
    IN  /\ waiting_time > ANTI_STARVATION_TIME
        /\ c.current_green_time > MIN_GREEN_TIME

\* The decision loop and the anti-starvation test of update_ai_signals.
DecideAndGuard(c, cs, t) ==
        LET d == IF t - c.last_ai_update >= AI_UPDATE_INTERVAL
                 THEN [make_ai_decision(c, cs, t) EXCEPT !.last_ai_update = t]
                 ELSE c
        IN  IF Starved(d, t)
            THEN initiate_signal_switch([d EXCEPT !.log = Append(@, "starve")], t)
            ELSE d

\* update_ai_signals without the return after handle_signal_switching.
update_ai_signals_NoReturn(c, cs, t) ==
    IF c.switching THEN DecideAndGuard(handle_signal_switching(c, t), cs, t)
    ELSE DecideAndGuard(c, cs, t)

update_ai_signals(c, cs, t) ==
    IF c.switching THEN handle_signal_switching(c, t)
    ELSE DecideAndGuard(c, cs, t)

update(c, cs, dt, t) ==
    LET c1 == [c EXCEPT !.signal_timer = @ + dt,
                        !.current_green_time = @ + dt,
                        !.log = <<>>,
                        !.active_p = Frac(0, 1),
                        !.waiting_p = Frac(0, 1)]
    IN  IF c1.controller_type = "fixed" THEN update_fixed_signals(c1)
        ELSE update_ai_signals(c1, cs, t)

(***************************************************************************)
(* MetricsCollector                                                        *)
(***************************************************************************)
THROUGHPUT_MAXLEN == 400

\* MetricsCollector.reset(start_sim_time); __init__ is reset(0.0).
MetricsCollector(start_sim_time) ==
    [total_cars_spawned |-> 0, total_cars_exited |-> 0, total_wait_time |-> 0,
     sim_start_time |-> start_sim_time, throughput_history |-> <<>>]

record_car_spawn(m) ==
    [m EXCEPT !.total_cars_spawned = @ + 1]

record_car_exit(m, car, t) ==
    LET hist == Append(m.throughput_history, t) IN
    [m EXCEPT !.total_cars_exited = @ + 1,
              !.total_wait_time = @ + car.waiting_time,
              !.throughput_history =
                  IF Len(hist) > THROUGHPUT_MAXLEN THEN Tail(hist) ELSE hist]

\* The vehicle after record_car_exit(car, sim_time).
ExitedCar(car, t) == [car EXCEPT !.exit_time = t]

\* MetricsCollector.get_average_wait_time, in ticks, as a fraction; the
\* variant divides by the vehicles spawned.
Metrics_average_PerSpawned(m) ==
    IF m.total_cars_spawned = 0 THEN Frac(0, 1)
    ELSE Frac(m.total_wait_time, m.total_cars_spawned)

Metrics_get_average_wait_time(m) ==
    IF m.total_cars_exited = 0 THEN Frac(0, 1)
    ELSE Frac(m.total_wait_time, m.total_cars_exited)

\* MetricsCollector.get_throughput_per_minute: the exits of the last 60 s.
THROUGHPUT_WINDOW == 60 * FPS
get_throughput_per_minute(m, t) ==
    Cardinality({i \in DOMAIN m.throughput_history :
                    t - m.throughput_history[i] < THROUGHPUT_WINDOW})

get_simulation_time(m, t) == t - m.sim_start_time

(***************************************************************************)
(* Persistence of the fixed-timer metrics, and their use by the overlay    *)
(***************************************************************************)
\* load_cached_metrics: the value of the file if it exists, can be read and
\* is JSON; None otherwise, every exception being swallowed.
load_cached_metrics(file) ==
    IF file.state = "json" THEN file.value ELSE None

\* The dictionary save_fixed_metrics dumps; times are in ticks.
Snapshot_data(m, t) ==
    LET avg == Metrics_get_average_wait_time(m) IN
    JsonObject([avg_wait_time |-> JsonNumber(avg.num, avg.den),
                throughput |-> JsonNumber(get_throughput_per_minute(m, t), 1),
                total_cars |-> JsonNumber(m.total_cars_exited, 1),
                simulation_time |-> JsonNumber(get_simulation_time(m, t), 1)])

\* save_fixed_metrics: the file after the call, the write succeeding.  The
\* variant writes whatever the controller is.
save_fixed_metrics_AnyMode(file, c, m, t) ==
    IF c.controller_type # "none" THEN File("json", Snapshot_data(m, t))
    ELSE file

save_fixed_metrics(file, c, m, t) ==
    IF c.controller_type = "fixed" THEN File("json", Snapshot_data(m, t))
    ELSE file

\* The comparison with the cached fixed-timer metrics in draw_ui_overlay:
\* "alive" if it passes, else the exception it raises.  cached.get fails on
\* a value that is not a dictionary, and fixed_avg > 0 on a truthy value
\* that is not a number.
OVERLAY_MIN_EXITS == 10
draw_ui_overlay(c, cached, m) ==
    IF /\ c.controller_type = "ai"
       /\ Truthy(cached)
       /\ m.total_cars_exited > OVERLAY_MIN_EXITS
    THEN IF cached.type # "object" THEN "AttributeError"
         ELSE LET got == IF "avg_wait_time" \in DOMAIN cached.fields
                         THEN cached.fields.avg_wait_time
                         ELSE JsonNumber(0, 1)
                  fixed_avg == IF Truthy(got) THEN got ELSE JsonNumber(0, 1)
              IN  IF fixed_avg.type = "number" THEN "alive" ELSE "TypeError"
    ELSE "alive"

(***************************************************************************)
(* Car.update and the tests it makes                                       *)
(***************************************************************************)
\* The window around the stop line, 50 pixels either side.
STOP_BAND == 50 * PX

\* The coordinate of the stop line of a direction, along its axis of travel.
StopLine(direction) ==
    LET half == INTERSECTION_SIZE \div 2 IN
    IF direction = "NORTH" THEN CY + half
    ELSE IF direction = "SOUTH" THEN CY - half
    ELSE IF direction = "EAST" THEN CX - half
    ELSE CX + half

\* The coordinate of a vehicle along its axis of travel.
Along(car) == IF car.direction \in {"NORTH", "SOUTH"} THEN car.y ELSE car.x

InStopWindow(car) ==
    /\ StopLine(car.direction) - STOP_BAND < Along(car)
    /\ Along(car) < StopLine(car.direction) + STOP_BAND

should_stop_at_signal(car, c) ==
    IF InStopWindow(car)
    THEN get_signal_state(c, RoadOf(car.direction)) # "GREEN"
    ELSE FALSE

\* The test get_car_ahead makes of one other vehicle.  The vehicle itself
\* fails it (its distance is 0), as `other is self` has it skipped.
IsAhead(car, other) ==
    /\ other.direction = car.direction
    /\ IF car.direction = "NORTH"
       THEN /\ other.y < car.y /\ Abs(other.x - car.x) < LANE_WIDTH
            /\ 0 < car.y - other.y /\ car.y - other.y < SAFE_DISTANCE
       ELSE IF car.direction = "SOUTH"
       THEN /\ other.y > car.y /\ Abs(other.x - car.x) < LANE_WIDTH
            /\ 0 < other.y - car.y /\ other.y - car.y < SAFE_DISTANCE
       ELSE IF car.direction = "EAST"
       THEN /\ other.x > car.x /\ Abs(other.y - car.y) < LANE_WIDTH
            /\ 0 < other.x - car.x /\ other.x - car.x < SAFE_DISTANCE
       ELSE /\ other.x < car.x /\ Abs(other.y - car.y) < LANE_WIDTH
            /\ 0 < car.x - other.x /\ car.x - other.x < SAFE_DISTANCE

\* The index in cs of the first vehicle ahead, 0 for None.
get_car_ahead(car, cs) ==
    LET found == {i \in 1..Len(cs) : IsAhead(car, cs[i])} IN
    IF found = {} THEN 0
    ELSE CHOOSE i \in found : \A j \in found : i <= j

\* The speed after braking: the result is not compared with max_speed.
Brake(car, step_scale) ==
    Max(0, car.speed - CAR_ACCELERATION * 2 * step_scale)

Accelerate(car, step_scale) ==
    Min(car.max_speed, car.speed + CAR_ACCELERATION * step_scale)

\* Whether waiting time accumulates: stopped, and the position unchanged.
Waits_Braking(is_stopped, delta) == is_stopped \/ delta < CAR_MAX_SPEED

Waits(is_stopped, delta) == is_stopped /\ delta = 0

\* Whether the signal makes the vehicle brake: never an ambulance.
SignalStops_Ambulance(car, c) == should_stop_at_signal(car, c)

SignalStops(car, c) ==
    IF car.is_ambulance THEN FALSE ELSE should_stop_at_signal(car, c)

\* Car.update(cars, signal_controller, dt_sim).  A speed of at most 1e-3 is
\* the speed 0, and a displacement below 1e-3 is the displacement 0.
Car_update(car, cs, c, dt_sim) ==
    LET step_scale == dt_sim
        should_stop == SignalStops(car, c)
        car_ahead == get_car_ahead(car, cs)
        braking == should_stop \/ car_ahead # 0
        speed == IF braking THEN Brake(car, step_scale)
                 ELSE Accelerate(car, step_scale)
        is_stopped == braking /\ speed = 0
        delta == speed * step_scale
    IN  [car EXCEPT
            !.speed = speed,
            !.is_stopped = is_stopped,
            !.x = IF car.direction = "EAST" THEN @ + delta
                  ELSE IF car.direction = "WEST" THEN @ - delta ELSE @,
            !.y = IF car.direction = "NORTH" THEN @ - delta
                  ELSE IF car.direction = "SOUTH" THEN @ + delta ELSE @,
            !.waiting_time = IF Waits(is_stopped, delta) THEN @ + dt_sim ELSE @]

OFF_SCREEN_MARGIN == 100 * PX

is_off_screen(car) ==
    \/ car.x < -OFF_SCREEN_MARGIN
    \/ car.x > WINDOW_WIDTH + OFF_SCREEN_MARGIN
    \/ car.y < -OFF_SCREEN_MARGIN
    \/ car.y > WINDOW_HEIGHT + OFF_SCREEN_MARGIN

(***************************************************************************)
(* TrafficSimulation.update_cars and spawn_cars                            *)
(***************************************************************************)
\* int() of a coordinate: whole pixels, rounded toward zero.
IntPixels(v) == IF v >= 0 THEN v \div PX ELSE -((-v) \div PX)

\* incident_rect = Rect(cx + 20, cy - 60, 40, 30), in whole pixels.
incident_rect ==
    [left |-> CX \div PX + 20, top |-> CY \div PX - 60, width |-> 40, height |-> 30]

\* Rect.inflate(w, h): grown about its centre.
inflate(rect, w, h) ==
    [left |-> rect.left - w \div 2, top |-> rect.top - h \div 2,
     width |-> rect.width + w, height |-> rect.height + h]

\* Rect.collidepoint: the right and bottom edges are outside.
collidepoint(rect, px, py) ==
    /\ rect.left <= px /\ px < rect.left + rect.width
    /\ rect.top <= py /\ py < rect.top + rect.height

INCIDENT_EXPAND == 30
INCIDENT_MAX_SPEED == 15

NearIncident(car) ==
    collidepoint(inflate(incident_rect, INCIDENT_EXPAND, INCIDENT_EXPAND),
                 IntPixels(car.x), IntPixels(car.y))

\* The max_speed update_cars gives a vehicle before its Car.update.
CappedSpeed(car, incident) ==
    IF incident /\ ~car.is_ambulance /\ NearIncident(car)
    THEN Min(CAR_MAX_SPEED, INCIDENT_MAX_SPEED)
    ELSE CAR_MAX_SPEED

\* The loop of update_cars after its first k iterations over the copy
\* snapshot of the list: the vehicles already updated and still on screen,
\* and the metrics.  The list Car.update of vehicle k sees is LiveList.
RECURSIVE UpdatedThrough(_, _, _, _, _, _, _)
LiveList(snapshot, k, c, dt_sim, incident, m, t) ==
    UpdatedThrough(snapshot, k - 1, c, dt_sim, incident, m, t).cars
        \o SubSeq(snapshot, k, Len(snapshot))

UpdatedThrough(snapshot, k, c, dt_sim, incident, m, t) ==
    IF k = 0 THEN [cars |-> <<>>, metrics |-> m]
    ELSE LET before == UpdatedThrough(snapshot, k - 1, c, dt_sim, incident, m, t)
             live == before.cars \o SubSeq(snapshot, k, Len(snapshot))
             capped == [snapshot[k] EXCEPT
                           !.max_speed = CappedSpeed(snapshot[k], incident)]
             car == Car_update(capped, live, c, dt_sim)
         IN  IF is_off_screen(car)
             THEN [cars |-> before.cars,
                   metrics |-> record_car_exit(before.metrics, car, t)]
             ELSE [cars |-> Append(before.cars, car), metrics |-> before.metrics]

update_cars(cs, c, dt_sim, incident, m, t) ==
    UpdatedThrough(cs, Len(cs), c, dt_sim, incident, m, t)

\* Where spawn_cars puts a new vehicle of a direction.
SpawnX(direction) ==
    IF direction = "NORTH" THEN CX - LANE_WIDTH \div 2
    ELSE IF direction = "SOUTH" THEN CX + LANE_WIDTH \div 2
    ELSE IF direction = "EAST" THEN -50 * PX
    ELSE WINDOW_WIDTH + 50 * PX

SpawnY(direction) ==
    IF direction = "NORTH" THEN WINDOW_HEIGHT + 50 * PX
    ELSE IF direction = "SOUTH" THEN -50 * PX
    ELSE IF direction = "EAST" THEN CY - LANE_WIDTH \div 2
    ELSE CY + LANE_WIDTH \div 2

\* One spawn of spawn_cars.  direction is "none" when the random event does
\* not happen, else random.choice's direction; draw is random() < 0.10.
SpawnOne(st, direction, draw, amb_mode, t) ==
    IF direction = "none" THEN st
    ELSE [cars |-> Append(st.cars,
                       Car(SpawnX(direction), SpawnY(direction), direction,
                           amb_mode /\ draw, t)),
          metrics |-> record_car_spawn(st.metrics),
          controller |-> record_arrival(st.controller, RoadOf(direction), t)]

\* spawn_cars: the main road's spawn, then the side road's.
spawn_cars(cs, m, c, amb_mode, t, main_dir, main_draw, side_dir, side_draw) ==
    SpawnOne(SpawnOne([cars |-> cs, metrics |-> m, controller |-> c],
                      main_dir, main_draw, amb_mode, t),
             side_dir, side_draw, amb_mode, t)

(***************************************************************************)
(* TrafficSimulation: the events of handle_events                          *)
(***************************************************************************)
\* start_simulation without self.cars.clear().
start_simulation_KeepCars(mode) ==
    /\ exit_status = "alive"
    /\ show_menu
    /\ signal_controller' = SignalController(mode, sim_time)
    /\ metrics' = MetricsCollector(sim_time)
    /\ show_menu' = FALSE
    /\ running' = TRUE
    /\ incident_active' = FALSE
    /\ ambulance_mode' = FALSE
    /\ UNCHANGED <<Config, fixed_metrics_file, cached_fixed_metrics, exit_status,
                   sim_time, simulation_speed, cars>>

\* start_simulation(mode), reached from a menu button while the menu shows.
\* The metrics are reset with the controller.
start_simulation(mode) ==
    /\ exit_status = "alive"
    /\ show_menu
    /\ signal_controller' = SignalController(mode, sim_time)
    /\ metrics' = MetricsCollector(sim_time)
    /\ cars' = <<>>
    /\ show_menu' = FALSE
    /\ running' = TRUE
    /\ incident_active' = FALSE
    /\ ambulance_mode' = FALSE
    /\ UNCHANGED <<Config, fixed_metrics_file, cached_fixed_metrics, exit_status,
                   sim_time, simulation_speed>>

\* K_ESCAPE while a run is active: save_fixed_metrics, then the menu.
Escape ==
    /\ exit_status = "alive"
    /\ running
    /\ fixed_metrics_file' =
          save_fixed_metrics(fixed_metrics_file, signal_controller, metrics,
                             sim_time)
    /\ show_menu' = TRUE
    /\ running' = FALSE
    /\ UNCHANGED <<Config, cached_fixed_metrics, exit_status,
                   sim_time, simulation_speed, incident_active, ambulance_mode,
                   cars, signal_controller, metrics>>

\* One iteration of run() while the menu shows: only the clock advances.
MenuTick(dt) ==
    /\ exit_status = "alive"
    /\ show_menu
    /\ sim_time' = sim_time + dt * simulation_speed
    /\ UNCHANGED <<Config, fixed_metrics_file, cached_fixed_metrics, exit_status,
                   show_menu, running, simulation_speed, incident_active,
                   ambulance_mode, cars, signal_controller, metrics>>

\* K_SPACE while a run is active.
KeySpace ==
    /\ exit_status = "alive"
    /\ running
    /\ simulation_speed' = IF simulation_speed = 1 THEN 2 ELSE 1
    /\ UNCHANGED <<Config, fixed_metrics_file, cached_fixed_metrics, exit_status,
                   sim_time, show_menu, running, incident_active, ambulance_mode,
                   cars, signal_controller, metrics>>

\* K_i while a run is active.
KeyIncident ==
    /\ exit_status = "alive"
    /\ running
    /\ incident_active' = ~incident_active
    /\ UNCHANGED <<Config, fixed_metrics_file, cached_fixed_metrics, exit_status,
                   sim_time, show_menu, running, simulation_speed, ambulance_mode,
                   cars, signal_controller, metrics>>

\* K_a while a run is active.
KeyAmbulance ==
    /\ exit_status = "alive"
    /\ running
    /\ ambulance_mode' = ~ambulance_mode
    /\ UNCHANGED <<Config, fixed_metrics_file, cached_fixed_metrics, exit_status,
                   sim_time, show_menu, running, simulation_speed, incident_active,
                   cars, signal_controller, metrics>>

\* pygame.QUIT, the window being closed: save_fixed_metrics if a run is
\* active, then the loop of run() ends and run() saves again whenever the
\* controller is the fixed one.
WindowClose ==
    /\ exit_status = "alive"
    /\ LET saved == IF running
                    THEN save_fixed_metrics(fixed_metrics_file,
                                            signal_controller, metrics, sim_time)
                    ELSE fixed_metrics_file
       IN  fixed_metrics_file' =
              save_fixed_metrics(saved, signal_controller, metrics, sim_time)
    /\ exit_status' = "quit"
    /\ UNCHANGED <<Config, cached_fixed_metrics, sim_time, show_menu, running,
                   simulation_speed, incident_active, ambulance_mode, cars,
                   signal_controller, metrics>>

\* quit_game, reached from the Quit button while the menu shows: sys.exit.
quit_game ==
    /\ exit_status = "alive"
    /\ show_menu
    /\ exit_status' = "quit"
    /\ UNCHANGED <<Config, fixed_metrics_file, cached_fixed_metrics, sim_time,
                   show_menu, running, simulation_speed, incident_active,
                   ambulance_mode, cars, signal_controller, metrics>>

\* One iteration of run() during a run, the frame lasting 1/FPS second: the
\* clock, spawn_cars, update_cars, SignalController.update and the overlay.
Frame(main_dir, main_draw, side_dir, side_draw) ==
    /\ exit_status = "alive"
    /\ running
    /\ ~show_menu
    /\ LET dt_sim == simulation_speed
           t == sim_time + dt_sim
           spawned == spawn_cars(cars, metrics, signal_controller, ambulance_mode,
                                 t, main_dir, main_draw, side_dir, side_draw)
           updated == update_cars(spawned.cars, spawned.controller, dt_sim,
                                  incident_active, spawned.metrics, t)
       IN  /\ sim_time' = t
           /\ cars' = updated.cars
           /\ metrics' = updated.metrics
           /\ signal_controller' = update(spawned.controller, updated.cars, dt_sim, t)
           /\ exit_status' = draw_ui_overlay(spawned.controller,
                                             cached_fixed_metrics, updated.metrics)
    /\ UNCHANGED <<Config, fixed_metrics_file, cached_fixed_metrics,
                   show_menu, running, simulation_speed, incident_active,
                   ambulance_mode>>

(***************************************************************************)
(* The controller on its own: SignalController.update is called once per   *)
(* frame of a run with the frame's dt_sim, the new sim_time and an agent   *)
(* set; record_arrival is called by spawn_cars.  Here the agent set is an  *)
(* input of each call, drawn from Scenes.                                  *)
(***************************************************************************)
\* A vehicle standing in the queue of its road.
Queued(direction, wait) ==
    LET x == IF direction = "NORTH" THEN CX - LANE_WIDTH \div 2
             ELSE IF direction = "SOUTH" THEN CX + LANE_WIDTH \div 2
             ELSE IF direction = "EAST" THEN CX - INTERSECTION_SIZE \div 2 - 10 * PX
             ELSE CX + INTERSECTION_SIZE \div 2 + 10 * PX
        y == IF direction = "NORTH" THEN CY + INTERSECTION_SIZE \div 2 + 10 * PX
             ELSE IF direction = "SOUTH" THEN CY - INTERSECTION_SIZE \div 2 - 10 * PX
             ELSE IF direction = "EAST" THEN CY - LANE_WIDTH \div 2
             ELSE CY + LANE_WIDTH \div 2
    IN  [Car(x, y, direction, FALSE, 0) EXCEPT !.is_stopped = TRUE,
                                               !.waiting_time = wait]

\* n queued vehicles of one direction, each having waited `wait` ticks.
Queue(direction, n, wait) == [i \in 1..n |-> Queued(direction, wait)]

\* Agent sets whose pressures are 0 and 0, and 5.0 against 5.3, 5.5 and 5.6
\* (either road being the one with 5.0).
QueueLen == 5
Scenes ==
    {<<>>}
    \cup {Queue("NORTH", QueueLen, 0) \o Queue("EAST", QueueLen, w) :
            w \in {270, 450, 540}}
    \cup {Queue("WEST", QueueLen, 0) \o Queue("SOUTH", QueueLen, w) :
            w \in {270, 450, 540}}

\* Whether the exploration follows a frame of dt ticks from the present time.
\* A switch in progress is always followed to its end.
InHorizon(dt) ==
    \/ signal_controller.switching
    \/ IF dt = StallDt THEN sim_time >= StallFrom /\ sim_time <= StallTo
       ELSE \/ sim_time + dt <= MaxTime
            \/ sim_time >= StallDt /\ sim_time + dt <= StallDt + MaxTime

ControllerUpdate(dt, cs) ==
    /\ running
    /\ sim_time' = sim_time + dt
    /\ signal_controller' = update(signal_controller, cs, dt, sim_time + dt)
    /\ UNCHANGED <<Config, fixed_metrics_file, cached_fixed_metrics, exit_status,
                   show_menu, running, simulation_speed, incident_active,
                   ambulance_mode, cars, metrics>>

InitMenu ==
    /\ fixed_metrics_file = AbsentFile
    /\ cached_fixed_metrics = None
    /\ exit_status = "alive"
    /\ Config = DefaultConfig
    /\ sim_time = 0
    /\ show_menu = TRUE
    /\ running = FALSE
    /\ simulation_speed = 1
    /\ incident_active = FALSE
    /\ ambulance_mode = FALSE
    /\ cars = <<>>
    /\ signal_controller = NoController
    /\ metrics = MetricsCollector(0)

\* An adaptive run is the one in progress.
Adaptive_run == signal_controller.controller_type = "ai"

NextCtl ==
    \/ \E mode \in {"fixed", "ai"} : start_simulation(mode)
    \/ Escape /\ sim_time <= MaxMenuTime /\ Adaptive_run
    \/ \E dt \in CtlDts : MenuTick(dt) /\ sim_time + dt <= MaxMenuTime
    \/ \E dt \in CtlDts \cup {StallDt}, cs \in Scenes :
          InHorizon(dt) /\ ControllerUpdate(dt, cs)

SpecCtl == InitMenu /\ [][NextCtl]_vars

(***************************************************************************)
(* One adaptive run from time 0 that may be abandoned at any time, under   *)
(* the fairness of run(): while the run is active, frames keep coming.     *)
(***************************************************************************)
MaxSwitchTime == 2400
SwitchScenes ==
    {<<>>,
     Queue("NORTH", QueueLen, 0) \o Queue("EAST", QueueLen, 540),
     Queue("WEST", QueueLen, 0) \o Queue("SOUTH", QueueLen, 540)}

SwitchFrame ==
    \E dt \in CtlDts, cs \in SwitchScenes :
        /\ sim_time + dt <= MaxSwitchTime \/ signal_controller.switching
        /\ ControllerUpdate(dt, cs)

NextSwitch ==
    \/ start_simulation("ai") /\ sim_time = 0
    \/ Escape
    \/ SwitchFrame

SpecSwitch == InitMenu /\ [][NextSwitch]_vars /\ WF_vars(SwitchFrame)

(***************************************************************************)
(* The fixed schedule at the frame times of the program: frames of 1/60 s  *)
(* at multiplier 1.0 and 2.0.                                              *)
(***************************************************************************)
FrameDts == {1, 2}
MaxFixedTime == 4600
MaxFixedMenuTime == 3

NextFixed ==
    \/ start_simulation("fixed")
    \/ \E dt \in FrameDts : MenuTick(dt) /\ sim_time + dt <= MaxFixedMenuTime
    \/ \E dt \in FrameDts :
          sim_time + dt <= MaxFixedTime /\ ControllerUpdate(dt, <<>>)

SpecFixed == InitMenu /\ [][NextFixed]_vars

(***************************************************************************)
(* One adaptive run from time 0, long enough for a green phase to reach    *)
(* MAX_GREEN_TIME in ordinary frames.                                      *)
(***************************************************************************)
MaxLongTime == 3240

NextLong ==
    \/ start_simulation("ai") /\ sim_time = 0
    \/ \E dt \in CtlDts, cs \in Scenes :
          /\ sim_time + dt <= MaxLongTime \/ signal_controller.switching
          /\ ControllerUpdate(dt, cs)

SpecLong == InitMenu /\ [][NextLong]_vars

(***************************************************************************)
(* Runs with vehicles.  Every frame lasts 1/FPS second of real time, so    *)
(* dt_sim is 1 tick at multiplier 1.0 and 2 ticks at 2.0.  Vehicles spawn  *)
(* in the frames whose sim_time lies between SpawnFrom and SpawnTo, while  *)
(* fewer than MaxCars are on the road: late enough for the vehicles of the *)
(* main road to meet the end of its green.                                 *)
(***************************************************************************)
MaxCars == 2
SpawnFrom == 1089
SpawnTo == 1091
\* A later frame or two with spawns, whose vehicles meet the all-red phase.
LateSpawnFrom == 1275
LateSpawnTo == 1276
MaxCarTime == 1400
\* SPACE, A and I are pressed in the first ticks of a run; I also while the
\* first vehicles pass the incident.
MaxKeyTime == 2
IncidentFrom == 1203
IncidentTo == 1205

SpawnTicks == (SpawnFrom..SpawnTo) \cup (LateSpawnFrom..LateSpawnTo)

SpawnCount(main_dir, side_dir) ==
    (IF main_dir = "none" THEN 0 ELSE 1) + (IF side_dir = "none" THEN 0 ELSE 1)

CarFrame ==
    \E main_dir \in {"none", "NORTH", "SOUTH"}, side_dir \in {"none", "EAST", "WEST"},
       main_draw \in BOOLEAN, side_draw \in BOOLEAN :
        /\ sim_time + simulation_speed <= MaxCarTime
        /\ SpawnCount(main_dir, side_dir) > 0 =>
              /\ sim_time + simulation_speed \in SpawnTicks
              /\ Len(cars) + SpawnCount(main_dir, side_dir) <= MaxCars
        /\ main_draw => ambulance_mode /\ main_dir # "none"
        /\ side_draw => ambulance_mode /\ side_dir # "none"
        /\ Frame(main_dir, main_draw, side_dir, side_draw)

NextCar ==
    \/ start_simulation("fixed") /\ sim_time = 0
    \/ KeySpace /\ sim_time <= MaxKeyTime
    \/ KeyAmbulance /\ sim_time <= MaxKeyTime
    \/ KeyIncident /\ (sim_time <= MaxKeyTime \/ sim_time \in IncidentFrom..IncidentTo)
    \/ CarFrame

SpecCar == InitMenu /\ [][NextCar]_vars

(***************************************************************************)
(* Runs with vehicles that are abandoned and started again, in either      *)
(* mode.  Vehicles spawn in the first SpawnSpan ticks of a run; a run is    *)
(* abandoned between EscapeFrom and EscapeTo, with vehicles on the road,   *)
(* or between LateEscapeFrom and LateEscapeTo, when an adaptive run is in  *)
(* the middle of its first switch; the menu shows for up to MenuSpan ticks *)
(* before each run.                                                        *)
(***************************************************************************)
SpawnSpan == 2
EscapeFrom == 200
EscapeTo == 201
LateEscapeFrom == 724
LateEscapeTo == 725
MenuSpan == 1
MaxRunTime == 740

EscapeTicks == (EscapeFrom..EscapeTo) \cup (LateEscapeFrom..LateEscapeTo)

\* Whether the menu may go on showing for another tick.
MenuHorizon ==
    \/ sim_time < MenuSpan
    \/ sim_time >= EscapeFrom /\ sim_time < EscapeTo + MenuSpan
    \/ sim_time >= LateEscapeFrom /\ sim_time < LateEscapeTo + MenuSpan

RunFrame ==
    \E main_dir \in {"none", "NORTH", "SOUTH"}, side_dir \in {"none", "EAST", "WEST"} :
        /\ sim_time + simulation_speed <= MaxRunTime
        /\ SpawnCount(main_dir, side_dir) > 0 =>
              /\ sim_time + simulation_speed - metrics.sim_start_time <= SpawnSpan
              /\ Len(cars) + SpawnCount(main_dir, side_dir) <= MaxCars
        /\ Frame(main_dir, FALSE, side_dir, FALSE)

NextRuns ==
    \/ \E mode \in {"fixed", "ai"} : start_simulation(mode)
    \/ Escape /\ sim_time \in EscapeTicks
    \/ MenuTick(1) /\ MenuHorizon
    \/ KeySpace /\ sim_time <= MaxKeyTime
    \/ RunFrame

SpecRuns == InitMenu /\ [][NextRuns]_vars

(***************************************************************************)
(* MetricsCollector on its own: after reset, record_car_spawn and          *)
(* record_car_exit are called in any order, the exits for the vehicles of  *)
(* a list whose waiting times are drawn from WaitValues, each at the       *)
(* sim_time of its call.                                                   *)
(***************************************************************************)
MaxExits == 3
MaxSpawnCalls == 3
MaxExitTime == 3
WaitValues == {0, 30, 75}

\* A vehicle of the list, having waited w ticks.
Waited(w) == [Car(SpawnX("NORTH"), -OFF_SCREEN_MARGIN - PX, "NORTH", FALSE, 0)
                 EXCEPT !.waiting_time = w]

InitMetrics ==
    /\ fixed_metrics_file = AbsentFile
    /\ cached_fixed_metrics = None
    /\ exit_status = "alive"
    /\ Config = DefaultConfig
    /\ sim_time = 0
    /\ show_menu = FALSE
    /\ running = TRUE
    /\ simulation_speed = 1
    /\ incident_active = FALSE
    /\ ambulance_mode = FALSE
    /\ signal_controller = SignalController("fixed", 0)
    /\ metrics = MetricsCollector(0)
    /\ \E n \in 0..MaxExits : cars \in [1..n -> {Waited(w) : w \in WaitValues}]

SpawnCall ==
    /\ metrics.total_cars_spawned < MaxSpawnCalls
    /\ metrics' = record_car_spawn(metrics)
    /\ UNCHANGED <<Config, fixed_metrics_file, cached_fixed_metrics, exit_status,
                   sim_time, show_menu, running, simulation_speed, incident_active,
                   ambulance_mode, cars, signal_controller>>

ExitCall(i) ==
    /\ cars[i].exit_time = -1
    /\ metrics' = record_car_exit(metrics, cars[i], sim_time)
    /\ cars' = [cars EXCEPT ![i] = ExitedCar(cars[i], sim_time)]
    /\ UNCHANGED <<Config, fixed_metrics_file, cached_fixed_metrics, exit_status,
                   sim_time, show_menu, running, simulation_speed, incident_active,
                   ambulance_mode, signal_controller>>

ClockTick ==
    /\ sim_time < MaxExitTime
    /\ sim_time' = sim_time + 1
    /\ UNCHANGED <<Config, fixed_metrics_file, cached_fixed_metrics, exit_status,
                   show_menu, running, simulation_speed, incident_active,
                   ambulance_mode, cars, signal_controller, metrics>>

NextMetrics ==
    \/ SpawnCall
    \/ \E i \in DOMAIN cars : ExitCall(i)
    \/ ClockTick

SpecMetrics == InitMetrics /\ [][NextMetrics]_vars

(***************************************************************************)
(* One vehicle stepped two ways from the moment spawn_cars made it: as     *)
(* cars[1] by two Car.update calls of dt_sim = 1/60 (multiplier 1.0) and   *)
(* as cars[2] by one call of dt_sim = 2/60 (multiplier 2.0), over the same *)
(* simulated time.  Each sees the same signals (those of a fixed-mode run  *)
(* in its first green) and no other vehicle.                               *)
(***************************************************************************)
MaxPairTime == 400

InitPair ==
    /\ fixed_metrics_file = AbsentFile
    /\ cached_fixed_metrics = None
    /\ exit_status = "alive"
    /\ Config = DefaultConfig
    /\ sim_time = 0
    /\ show_menu = FALSE
    /\ running = TRUE
    /\ simulation_speed = 1
    /\ incident_active = FALSE
    /\ ambulance_mode \in BOOLEAN
    /\ signal_controller = SignalController("fixed", 0)
    /\ metrics = MetricsCollector(0)
    /\ \E direction \in Direction :
          LET car == Car(SpawnX(direction), SpawnY(direction), direction,
                         ambulance_mode, 0)
          IN  cars = <<car, car>>

PairStep ==
    /\ sim_time + 2 <= MaxPairTime
    /\ sim_time' = sim_time + 2
    /\ LET once == Car_update(cars[1], <<cars[1]>>, signal_controller, 1)
           twice == Car_update(once, <<once>>, signal_controller, 1)
           double == Car_update(cars[2], <<cars[2]>>, signal_controller, 2)
       IN  cars' = <<twice, double>>
    /\ UNCHANGED <<Config, fixed_metrics_file, cached_fixed_metrics, exit_status,
                   show_menu, running, simulation_speed, incident_active,
                   ambulance_mode, signal_controller, metrics>>

SpecPair == InitPair /\ [][PairStep]_vars

(***************************************************************************)
(* Starting runs under other timings: class Config holds the timings the   *)
(* claim names, each drawn from a few values around 0 and the program's    *)
(* own.  SignalController.__init__ and start_simulation read none of them, *)
(* so only the menu, the start of a run and its abandoning are followed.   *)
(***************************************************************************)
MaxConfigMenuTime == 2

Configs ==
    [FIXED_GREEN_TIME : {-FPS, 0, FIXED_GREEN_TIME},
     FIXED_YELLOW_TIME : {-FPS, 0, FIXED_YELLOW_TIME},
     FIXED_ALL_RED_TIME : {0, FIXED_ALL_RED_TIME},
     MIN_GREEN_TIME : {0, MIN_GREEN_TIME, MAX_GREEN_TIME},
     MAX_GREEN_TIME : {MIN_GREEN_TIME, MAX_GREEN_TIME}]

InitConfig ==
    /\ fixed_metrics_file = AbsentFile
    /\ cached_fixed_metrics = None
    /\ exit_status = "alive"
    /\ Config \in Configs
    /\ sim_time = 0
    /\ show_menu = TRUE
    /\ running = FALSE
    /\ simulation_speed = 1
    /\ incident_active = FALSE
    /\ ambulance_mode = FALSE
    /\ cars = <<>>
    /\ signal_controller = NoController
    /\ metrics = MetricsCollector(0)

NextConfig ==
    \/ \E mode \in {"fixed", "ai"} : start_simulation(mode)
    \/ Escape
    \/ MenuTick(1) /\ sim_time < MaxConfigMenuTime

SpecConfig == InitConfig /\ [][NextConfig]_vars

(***************************************************************************)
(* An adaptive run of a process that found the file fixed_metrics.json in  *)
(* one of BaselineFiles when it was constructed.  A vehicle spawns on the  *)
(* main road every SpawnEvery ticks, BaselineCars of them, and the run is  *)
(* followed until all of them have left the screen.                        *)
(***************************************************************************)
SpawnEvery == 40
BaselineCars == 11
MaxBaselineTime == 720

\* What the value of the key avg_wait_time may be.
BaselineAverages ==
    {JsonNumber(300, 1), JsonNumber(0, 1), JsonNull, JsonString(""),
     JsonString("abc"), JsonList(1)}

BaselineFiles ==
    {AbsentFile, File("unreadable", None), File("invalid", None)}
    \cup {File("json", v) :
            v \in {JsonNull, JsonNumber(0, 1), JsonNumber(5, 1), JsonString(""),
                   JsonString("abc"), JsonList(0), JsonList(1),
                   JsonObject(<<>>),
                   JsonObject([total_cars |-> JsonNumber(3, 1)])}}
    \cup {File("json", JsonObject([avg_wait_time |-> a])) :
            a \in BaselineAverages}

InitBaseline ==
    /\ fixed_metrics_file \in BaselineFiles
    /\ cached_fixed_metrics = load_cached_metrics(fixed_metrics_file)
    /\ exit_status = "alive"
    /\ Config = DefaultConfig
    /\ sim_time = 0
    /\ show_menu = TRUE
    /\ running = FALSE
    /\ simulation_speed = 1
    /\ incident_active = FALSE
    /\ ambulance_mode = FALSE
    /\ cars = <<>>
    /\ signal_controller = NoController
    /\ metrics = MetricsCollector(0)

BaselineFrame ==
    \E main_dir \in {"none", "NORTH"} :
        /\ sim_time + simulation_speed <= MaxBaselineTime
        /\ main_dir = "NORTH" <=>
              /\ (sim_time + simulation_speed) % SpawnEvery = 0
              /\ metrics.total_cars_spawned < BaselineCars
        /\ Frame(main_dir, FALSE, "none", FALSE)

NextBaseline ==
    \/ start_simulation("ai") /\ sim_time = 0
    \/ KeySpace /\ sim_time <= MaxKeyTime
    \/ BaselineFrame

SpecBaseline == InitBaseline /\ [][NextBaseline]_vars

(***************************************************************************)
(* Runs in either mode that end with ESC or with the window being closed,  *)
(* and the menu between them.  A run has one vehicle on each road, spawned *)
(* in its first frames; it ends between EndFrom and EndTo, when the main   *)
(* road's vehicle has left, or between LateEndFrom and LateEndTo, when the *)
(* side road's vehicle has waited for its green and left as well.  After a *)
(* run the menu shows for up to PersistMenuSpan ticks.                     *)
(***************************************************************************)
PersistSpawnAt == 2
EndFrom == 300
EndTo == 301
LateEndFrom == 1750
LateEndTo == 1751
PersistMenuSpan == 2
MaxPersistTime == 1800

EndTicks == (EndFrom..EndTo) \cup (LateEndFrom..LateEndTo)

PersistMenuHorizon ==
    \/ sim_time >= EndFrom /\ sim_time < EndTo + PersistMenuSpan
    \/ sim_time >= LateEndFrom /\ sim_time < LateEndTo + PersistMenuSpan

PersistFrame ==
    \E main_dir \in {"none", "NORTH"}, side_dir \in {"none", "EAST"} :
        /\ sim_time + simulation_speed <= MaxPersistTime
        /\ main_dir = "NORTH" <=> side_dir = "EAST"
        /\ main_dir = "NORTH" <=>
              /\ metrics.total_cars_spawned = 0
              /\ sim_time + simulation_speed - metrics.sim_start_time
                    >= PersistSpawnAt
        /\ Frame(main_dir, FALSE, side_dir, FALSE)

NextPersist ==
    \/ \E mode \in {"fixed", "ai"} :
          start_simulation(mode) /\ (sim_time = 0 \/ sim_time >= EndFrom)
    \/ Escape /\ sim_time \in EndTicks
    \/ WindowClose /\ (show_menu \/ sim_time \in EndTicks)
    \/ quit_game
    \/ MenuTick(1) /\ PersistMenuHorizon
    \/ KeySpace /\ sim_time <= MaxKeyTime
    \/ PersistFrame

SpecPersist == InitMenu /\ [][NextPersist]_vars

(***************************************************************************)
(* A fixed run and then an adaptive run of the same process.  The process  *)
(* finds no file, or the snapshot of an earlier process.  The fixed run    *)
(* has one vehicle on each road, ends with ESC between LateEndFrom and     *)
(* LateEndTo, when both have left, and the adaptive run has BaselineCars   *)
(* vehicles on the main road, SpawnEvery ticks apart, followed until all   *)
(* have left.                                                              *)
(***************************************************************************)
MaxCompareTime == 2480

CompareFiles ==
    {AbsentFile,
     File("json", JsonObject([avg_wait_time |-> JsonNumber(300, 1),
                              throughput |-> JsonNumber(3, 1),
                              total_cars |-> JsonNumber(3, 1),
                              simulation_time |-> JsonNumber(3600, 1)]))}

InitCompare ==
    /\ fixed_metrics_file \in CompareFiles
    /\ cached_fixed_metrics = load_cached_metrics(fixed_metrics_file)
    /\ exit_status = "alive"
    /\ Config = DefaultConfig
    /\ sim_time = 0
    /\ show_menu = TRUE
    /\ running = FALSE
    /\ simulation_speed = 1
    /\ incident_active = FALSE
    /\ ambulance_mode = FALSE
    /\ cars = <<>>
    /\ signal_controller = NoController
    /\ metrics = MetricsCollector(0)

CompareFrame ==
    \E main_dir \in {"none", "NORTH"}, side_dir \in {"none", "EAST"} :
        /\ sim_time + simulation_speed <= MaxCompareTime
        /\ signal_controller.controller_type = "fixed" =>
              /\ sim_time + simulation_speed <= LateEndTo
              /\ main_dir = "NORTH" <=> side_dir = "EAST"
              /\ main_dir = "NORTH" <=>
                    /\ metrics.total_cars_spawned = 0
                    /\ sim_time + simulation_speed - metrics.sim_start_time
                          >= PersistSpawnAt
        /\ signal_controller.controller_type = "ai" =>
              /\ side_dir = "none"
              /\ main_dir = "NORTH" <=>
                    /\ (sim_time + simulation_speed) % SpawnEvery = 0
                    /\ metrics.total_cars_spawned < BaselineCars
        /\ Frame(main_dir, FALSE, side_dir, FALSE)

NextCompare ==
    \/ start_simulation("fixed") /\ sim_time = 0
    \/ Escape /\ sim_time \in LateEndFrom..LateEndTo
    \/ start_simulation("ai") /\ sim_time >= LateEndFrom
    \/ KeySpace /\ sim_time <= MaxKeyTime
    \/ CompareFrame

SpecCompare == InitCompare /\ [][NextCompare]_vars

(***************************************************************************)
(* One adaptive run from time 0 that is not abandoned, long enough for two *)
(* green phases to reach MAX_GREEN_TIME, under the fairness of run():      *)
(* while the run is active, frames keep coming.  A green phase that began  *)
(* by LiveFrom has the time to reach its ceiling before MaxLiveTime.       *)
(* Frames are of 2 s, and of 1 s or 2 s from ShortFrom to ShortTo, around  *)
(* the ceiling of the first green phase, so that the decisions made there  *)
(* fall on either side of MAX_GREEN_TIME.                                  *)
(***************************************************************************)
MaxLiveTime == 7200
LiveFrom == MaxLiveTime - (MAX_GREEN_TIME + 2 * AI_UPDATE_INTERVAL)
ShortFrom == 2760
ShortTo == 3000

\* Both roads empty, or a queue on the main road only.
LiveScenes == {<<>>, Queue("NORTH", QueueLen, 540)}

LiveFrame ==
    \E dt \in CtlDts, cs \in LiveScenes :
        /\ sim_time + dt <= MaxLiveTime \/ signal_controller.switching
        /\ dt = 2 * FPS \/ (sim_time >= ShortFrom /\ sim_time <= ShortTo)
        /\ ControllerUpdate(dt, cs)

NextLive ==
    \/ start_simulation("ai") /\ sim_time = 0
    \/ LiveFrame

SpecLive == InitMenu /\ [][NextLive]_vars /\ WF_vars(LiveFrame)

(***************************************************************************)
(* One adaptive run, started at once or after TickMenuWait in the menu,    *)
(* with frames of one tick at 1x and of two ticks at 2x, as run() makes    *)
(* them at the nominal frame rate.  SPACE is pressed in the first ticks of *)
(* the run or around the ceiling of its first green phase.                 *)
(***************************************************************************)
MaxTickTime == 6720
TickMenuWait == 6600
TickKeyFrom == 2995
TickKeyTo == 3000

RunTime == sim_time - metrics.sim_start_time

TickFrame ==
    \E cs \in LiveScenes :
        /\ RunTime + simulation_speed <= MaxTickTime
              \/ signal_controller.switching
        /\ ControllerUpdate(simulation_speed, cs)

NextTick ==
    \/ MenuTick(TickMenuWait) /\ sim_time = 0
    \/ start_simulation("ai")
    \/ KeySpace /\ (RunTime <= MaxKeyTime
                      \/ (RunTime >= TickKeyFrom /\ RunTime <= TickKeyTo))
    \/ TickFrame

SpecTick == InitMenu /\ [][NextTick]_vars

(***************************************************************************)
(* Properties                                                              *)
(***************************************************************************)
Adaptive == signal_controller.controller_type = "ai"
Fixed == signal_controller.controller_type = "fixed"

\* A step that calls SignalController.update.
UpdateStep == running /\ sim_time' > sim_time

Other(road) == IF road = "main" THEN "side" ELSE "main"

\* The road showing GREEN in controller c ("none" when neither does).
GreenRoad(c) ==
    IF c.main_signal = "GREEN" THEN "main"
    ELSE IF c.side_signal = "GREEN" THEN "side" ELSE "none"

LastGreen(c, road) ==
    IF road = "main" THEN c.main_last_green ELSE c.side_last_green

Initiations(c) == Cardinality({i \in DOMAIN c.log : c.log[i] = "initiate"})

\* C1: in both modes, from construction on and after every update, the main
\* and the side signal are never GREEN together.
C1_MutualExclusion ==
    ~(signal_controller.main_signal = "GREEN"
        /\ signal_controller.side_signal = "GREEN")

\* A switch of the adaptive controller has handed the green to the side road.
C1_Witness ==
    /\ Adaptive
    /\ ~signal_controller.switching
    /\ signal_controller.side_signal = "GREEN"
    /\ signal_controller.main_signal = "RED"

\* C2: a switch, once initiated, goes through stage 0, stage 1 and stage 2 in
\* that order (it starts in stage 0, every update keeps the stage or moves to
\* the next one, and only an update in stage 2 ends it), and while updates
\* keep coming it ends.
C2_StageOrder ==
    UpdateStep /\ Adaptive =>
        /\ ~signal_controller.switching /\ signal_controller'.switching
              => signal_controller'.switch_stage = 0
        /\ signal_controller.switching /\ signal_controller'.switching
              => /\ signal_controller.switch_stage \in {0, 1}
                 /\ signal_controller'.switch_stage
                       \in {signal_controller.switch_stage,
                            signal_controller.switch_stage + 1}
        /\ signal_controller.switching /\ ~signal_controller'.switching
              => signal_controller.switch_stage = 2

C2_SwitchCompletes ==
    /\ [][C2_StageOrder]_vars
    /\ (running /\ Adaptive /\ signal_controller.switching)
          ~> (~signal_controller.switching \/ ~running)

\* A switch is in its last stage, about to grant the new green.
C2_Witness ==
    /\ running /\ Adaptive
    /\ signal_controller.switching
    /\ signal_controller.switch_stage = 2

\* C3: after a switch has completed, the GREEN road is the one that was not
\* GREEN when the switch was initiated, its last-green stamp is the older of
\* the two, and the other road is RED.
C3_GrantsOtherRoad ==
    (Adaptive /\ ~signal_controller.switching
        /\ signal_controller.green_before # "none") =>
        LET g == GreenRoad(signal_controller) IN
        /\ g = Other(signal_controller.green_before)
        /\ LastGreen(signal_controller, g)
              < LastGreen(signal_controller, Other(g))
        /\ get_signal_state(signal_controller, Other(g)) = "RED"

\* The second switch of a run has completed: the green is back on the main
\* road.
C3_Witness ==
    /\ Adaptive /\ ~signal_controller.switching
    /\ signal_controller.green_before = "side"
    /\ signal_controller.main_signal = "GREEN"

\* C4: an update that finds a switch in progress runs only
\* handle_signal_switching (no decision loop, no anti-starvation test, no
\* initiate_signal_switch) and leaves last_switch_time and both last-green
\* stamps alone; and no update calls initiate_signal_switch twice.
C4_Step ==
    UpdateStep /\ Adaptive =>
        /\ Initiations(signal_controller') <= 1
        /\ signal_controller.switching =>
              /\ signal_controller'.log = <<"switching">>
              /\ signal_controller'.last_switch_time
                    = signal_controller.last_switch_time
              /\ signal_controller'.main_last_green
                    = signal_controller.main_last_green
              /\ signal_controller'.side_last_green
                    = signal_controller.side_last_green

C4_NoSecondSwitch == [][C4_Step]_vars

\* An update that found a switch in progress has moved it to its all-red
\* stage.
C4_Witness ==
    /\ Adaptive /\ signal_controller.switching
    /\ signal_controller.switch_stage = 1
    /\ signal_controller.log = <<"switching">>

\* The cycle of the fixed schedule as the list of its phases: duration, main
\* signal, side signal.
CyclePhases ==
    << <<FIXED_GREEN_TIME, "GREEN", "RED">>,
       <<FIXED_YELLOW_TIME, "YELLOW", "RED">>,
       <<FIXED_ALL_RED_TIME, "ALL_RED", "ALL_RED">>,
       <<FIXED_GREEN_TIME, "RED", "GREEN">>,
       <<FIXED_YELLOW_TIME, "RED", "YELLOW">>,
       <<FIXED_ALL_RED_TIME, "ALL_RED", "ALL_RED">> >>

RECURSIVE PhaseAt(_, _)
PhaseAt(pos, i) ==
    IF i >= Len(CyclePhases) \/ pos < CyclePhases[i][1]
    THEN <<CyclePhases[i][2], CyclePhases[i][3]>>
    ELSE PhaseAt(pos - CyclePhases[i][1], i + 1)

\* Tenths of a second in ticks.
Tenths(n) == (n * FPS) \div 10

\* C5: in fixed mode the signals are those of the phase of the cycle that
\* signal_timer, less the whole cycles (of 50 s) it holds, falls in; at
\* 19.9 s main is GREEN, at 20.5 s main is YELLOW, at 23.5 s both are ALL_RED
\* and at 26 s side is GREEN.
C5_FixedSchedule ==
    Fixed =>
        LET t == signal_controller.signal_timer
            shown == <<signal_controller.main_signal,
                       signal_controller.side_signal>>
        IN  /\ shown = PhaseAt(t % (50 * FPS), 1)
            /\ t = Tenths(199) => shown[1] = "GREEN"
            /\ t = Tenths(205) => shown[1] = "YELLOW"
            /\ t = Tenths(235) => shown = <<"ALL_RED", "ALL_RED">>
            /\ t = Tenths(260) => shown[2] = "GREEN"

\* The timer stands at 26 s into the second cycle and side is GREEN.
C5_Witness ==
    /\ Fixed
    /\ signal_controller.signal_timer = Tenths(260) + 50 * FPS
    /\ signal_controller.side_signal = "GREEN"

\* waiting_p > active_p + 0.5
WaitingLeads(waiting_p, active_p) ==
    FracGT(waiting_p, FracAdd(active_p, Frac(1, 2)))

\* The last update ran the decision loop, and it initiated a switch.
Decided(c) == Len(c.log) >= 1 /\ c.log[1] = "decide"
DecisionSwitched(c) == Len(c.log) >= 2 /\ c.log[1] = "decide" /\ c.log[2] = "initiate"

\* C6 as claimed: the decision loop triggers no switch whenever the waiting
\* road's pressure is at most the active road's plus the margin.
C6_NoSwitchWithinMargin ==
    (Adaptive /\ Decided(signal_controller)
        /\ ~WaitingLeads(signal_controller.waiting_p, signal_controller.active_p))
    => ~DecisionSwitched(signal_controller)

\* C6, amended: while the current green is shorter than MAX_GREEN_TIME, the
\* decision loop triggers no switch when the waiting road's pressure is at
\* most the active road's plus 0.5 (so none at 5.3 against 5.0); it triggers
\* one when the waiting pressure is higher than that (5.6 against 5.0) and
\* the minimum green and the cooldown have passed.
C6_Step ==
    (UpdateStep /\ Adaptive /\ Decided(signal_controller')) =>
        LET green == signal_controller.current_green_time + (sim_time' - sim_time)
            since_switch == sim_time' - signal_controller.last_switch_time
            leads == WaitingLeads(signal_controller'.waiting_p,
                                  signal_controller'.active_p)
        IN  /\ green < MAX_GREEN_TIME /\ ~leads
                  => ~DecisionSwitched(signal_controller')
            /\ green >= MIN_GREEN_TIME /\ since_switch >= COOLDOWN_TIME /\ leads
                  => DecisionSwitched(signal_controller')

C6_Hysteresis == [][C6_Step]_vars

\* The decision loop has compared 5.3 with 5.0 after the minimum green and
\* triggered no switch.
C6_Witness ==
    /\ Adaptive
    /\ signal_controller.log = <<"decide">>
    /\ signal_controller.active_p = Frac(50, 10)
    /\ signal_controller.waiting_p = Frac(53, 10)
    /\ signal_controller.current_green_time >= MIN_GREEN_TIME

\* The time the road that is not GREEN has gone without green at an update
\* that takes the clock to t.
WaitedSince(c, t) == t - LastGreen(c, Other(GreenRoad(c)))

\* C7 as claimed: an update that finds no switch in progress, the waiting
\* road without green for longer than ANTI_STARVATION_TIME and the current
\* green at MIN_GREEN_TIME or more, initiates a switch.
C7_ClaimedStep ==
    (UpdateStep /\ Adaptive /\ ~signal_controller.switching
        /\ WaitedSince(signal_controller, sim_time') > ANTI_STARVATION_TIME
        /\ signal_controller.current_green_time + (sim_time' - sim_time)
              >= MIN_GREEN_TIME)
    => Initiations(signal_controller') = 1

C7_ForcedAtMinimum == [][C7_ClaimedStep]_vars

\* C7, amended: the same with the current green longer than MIN_GREEN_TIME.
C7_Step ==
    (UpdateStep /\ Adaptive /\ ~signal_controller.switching
        /\ WaitedSince(signal_controller, sim_time') > ANTI_STARVATION_TIME
        /\ signal_controller.current_green_time + (sim_time' - sim_time)
              > MIN_GREEN_TIME)
    => Initiations(signal_controller') = 1

C7_AntiStarvation == [][C7_Step]_vars

\* The anti-starvation branch has initiated a switch in an update whose
\* decision loop ran, saw the waiting road's pressure below the active
\* road's, and triggered nothing.
C7_Witness ==
    /\ Adaptive
    /\ signal_controller.log = <<"decide", "starve", "initiate">>
    /\ FracGT(signal_controller.active_p, signal_controller.waiting_p)

(***************************************************************************)
(* Vehicles                                                                *)
(***************************************************************************)
\* C8: after every tick of update_cars every vehicle's speed lies between 0
\* and its current max_speed, whether the incident is on or off and whether
\* the vehicle accelerates or brakes.
C8_SpeedWithinMax ==
    \A i \in DOMAIN cars :
        /\ 0 <= cars[i].speed
        /\ cars[i].speed <= cars[i].max_speed

\* Two records of the same vehicle: one direction spawns at most one vehicle
\* in a frame.
SameCar(a, b) == a.direction = b.direction /\ a.spawn_time = b.spawn_time

\* The vehicle as spawn_cars constructs it.
Fresh(car) ==
    Car(SpawnX(car.direction), SpawnY(car.direction), car.direction,
        car.is_ambulance, car.spawn_time)

\* The record a vehicle of the next state had when this frame's update_cars
\* reached it: its record of this state, or the one spawn_cars made.
Before(car) ==
    IF \E i \in DOMAIN cars : SameCar(cars[i], car)
    THEN cars[CHOOSE i \in DOMAIN cars : SameCar(cars[i], car)]
    ELSE Fresh(car)

C9_Step ==
    UpdateStep =>
        \A j \in DOMAIN cars' :
            LET post == cars'[j]
                pre == Before(post)
                dt_sim == sim_time' - sim_time
            IN  /\ post.waiting_time >= pre.waiting_time
                /\ post.waiting_time > pre.waiting_time =>
                      /\ post.waiting_time = pre.waiting_time + dt_sim
                      /\ post.is_stopped
                      /\ post.x = pre.x /\ post.y = pre.y
                /\ post.speed > 0 => post.waiting_time = pre.waiting_time

\* C9: in every Car.update step waiting_time never decreases, and it grows,
\* by exactly dt_sim, only in a step that leaves is_stopped true and the
\* position unchanged; a vehicle still moving (slowed by the incident cap, or
\* braking) accumulates none.
C9_WaitingTime == [][C9_Step]_vars

\* A vehicle waits at its stop line while another, still moving, has waited
\* for nothing.
C9_Witness ==
    /\ \E i \in DOMAIN cars :
          cars[i].is_stopped /\ cars[i].waiting_time > 0 /\ InStopWindow(cars[i])
    /\ \E i \in DOMAIN cars :
          /\ cars[i].speed > 0 /\ cars[i].speed < CAR_MAX_SPEED
          /\ cars[i].waiting_time = 0

\* The list update_cars iterates over in this frame: the vehicles of this
\* state and then those spawn_cars adds.
Snapshot ==
    LET fresh == SelectSeq(cars', LAMBDA car : car.spawn_time = sim_time')
    IN  cars \o [i \in 1..Len(fresh) |-> Fresh(fresh[i])]

C10_Step ==
    UpdateStep /\ cars' # <<>> =>
        \A dt_sim \in {sim_time' - sim_time}, snapshot \in {Snapshot} :
            \A k \in 1..Len(snapshot) :
                \A live \in {LiveList(snapshot, k, signal_controller, dt_sim,
                                      incident_active, metrics, sim_time')} :
                    LET pre == snapshot[k]
                        post == Car_update(
                                    [pre EXCEPT
                                        !.max_speed = CappedSpeed(pre, incident_active)],
                                    live, signal_controller, dt_sim)
                        blocked == get_car_ahead(pre, live) # 0
                    IN  /\ ~is_off_screen(post) =>
                              \E j \in DOMAIN cars' : cars'[j] = post
                        /\ pre.is_ambulance =>
                              /\ (/\ InStopWindow(pre)
                                  /\ get_signal_state(signal_controller,
                                                      RoadOf(pre.direction)) # "GREEN"
                                  /\ ~blocked)
                                 => /\ post.speed >= pre.speed
                                    /\ post.speed = Min(CAR_MAX_SPEED,
                                           pre.speed + CAR_ACCELERATION * dt_sim)
                              /\ post.speed < pre.speed => blocked

\* C10: an ambulance inside the stop-line window of its road while the
\* road's signal is not GREEN, with no vehicle of its direction within the
\* safe distance ahead, does not decelerate in Car.update: it accelerates
\* toward the maximum speed.  It decelerates only with a vehicle ahead.
C10_AmbulancePreempts == [][C10_Step]_vars

\* An ambulance at full speed past the stop line's window start while its
\* signal is not GREEN and no vehicle is ahead of it.
C10_Witness ==
    \E i \in DOMAIN cars :
        /\ cars[i].is_ambulance
        /\ InStopWindow(cars[i])
        /\ get_signal_state(signal_controller, RoadOf(cars[i].direction)) # "GREEN"
        /\ get_car_ahead(cars[i], cars) = 0
        /\ cars[i].speed = CAR_MAX_SPEED
        /\ Abs(Along(cars[i]) - StopLine(cars[i].direction)) < 10 * PX

(***************************************************************************)
(* Metrics                                                                 *)
(***************************************************************************)
\* A step inside one run: the run was not started by this step.
SameRun == running /\ running'

ExitedWithinSpawned(m) == m.total_cars_exited <= m.total_cars_spawned

C11_Step ==
    /\ ExitedWithinSpawned(metrics)
    /\ ExitedWithinSpawned(metrics')
    /\ SameRun => metrics'.total_wait_time >= metrics.total_wait_time

\* C11: in every reachable state, across runs, restarts and returns to the
\* menu, total_cars_exited <= total_cars_spawned, and within a run
\* total_wait_time never decreases.
C11_ExitedWithinSpawned == [][C11_Step]_vars

\* In a run started after an earlier one was abandoned, a vehicle that
\* waited has left the screen.
C11_Witness ==
    /\ metrics.sim_start_time > 0
    /\ metrics.total_cars_exited > 0
    /\ metrics.total_wait_time > 0
    /\ metrics.total_cars_exited <= metrics.total_cars_spawned

\* The vehicles record_car_exit was called for.
Exited == {i \in DOMAIN cars : cars[i].exit_time # -1}

C12_Average ==
    LET n == Cardinality(Exited) IN
    /\ metrics.total_cars_exited = n
    /\ IF n = 0
       THEN Metrics_get_average_wait_time(metrics) = Frac(0, 1)
       ELSE Metrics_get_average_wait_time(metrics) = Frac(SumWaits(cars, Exited), n)

C12_Step ==
    /\ C12_Average
    /\ C12_Average'
    /\ metrics'.total_cars_exited # metrics.total_cars_exited =>
          /\ metrics'.total_cars_spawned = metrics.total_cars_spawned
          /\ \E i \in DOMAIN cars :
                /\ cars[i].exit_time = -1
                /\ cars' = [cars EXCEPT ![i] = [@ EXCEPT !.exit_time = sim_time]]

\* C12: after a reset and N calls of record_car_exit, in any interleaving
\* with record_car_spawn, get_average_wait_time is the sum of the N waiting
\* times over N, and 0 for N = 0; each record_car_exit sets the vehicle's
\* exit_time to the sim_time given and leaves total_cars_spawned unchanged.
C12_AverageWait == [][C12_Step]_vars

\* Three exits with different waiting times, at different times, and fewer
\* spawns than exits recorded.
C12_Witness ==
    /\ Cardinality(Exited) = 3
    /\ Cardinality({cars[i].waiting_time : i \in Exited}) = 3
    /\ Cardinality({cars[i].exit_time : i \in Exited}) > 1
    /\ metrics.total_cars_spawned = 1
    /\ Metrics_get_average_wait_time(metrics) = Frac(35, 1)

(***************************************************************************)
(* Speed invariance                                                        *)
(***************************************************************************)
\* C13: from the same initial vehicle state and under the same signal and
\* neighbour conditions, T simulated seconds in ticks of 1/60 s (cars[1])
\* and in half as many ticks of 2/60 s (cars[2]) give the same speed and the
\* same position at equal sim_time.  Refuted: the displacement of a tick is
\* the new speed times the tick, so the positions part while the speed
\* changes.
C13_SpeedInvariance ==
    /\ cars[1].speed = cars[2].speed
    /\ cars[1].x = cars[2].x
    /\ cars[1].y = cars[2].y

(***************************************************************************)
(* Starting a run                                                          *)
(***************************************************************************)
\* A step that is start_simulation: the menu gives way to a run.
StartStep == show_menu /\ ~show_menu'

C14_Step ==
    StartStep =>
        /\ running'
        /\ cars' = <<>>
        /\ metrics'.total_cars_spawned = 0
        /\ metrics'.total_cars_exited = 0
        /\ metrics'.total_wait_time = 0
        /\ metrics'.throughput_history = <<>>
        /\ metrics'.sim_start_time = sim_time'
        /\ signal_controller'.controller_type \in {"fixed", "ai"}
        /\ signal_controller'.main_signal = "GREEN"
        /\ signal_controller'.side_signal = "RED"
        /\ ~signal_controller'.switching
        /\ signal_controller'.current_green_time = 0
        /\ signal_controller'.signal_timer = 0
        /\ signal_controller'.main_last_green = sim_time'
        /\ signal_controller'.side_last_green = sim_time'
        /\ signal_controller'.last_ai_update = sim_time'
        /\ \A road \in Roads : signal_controller'.arrival_history[road] = <<>>

\* C14: start_simulation(mode), after any history (earlier runs in either
\* mode, a switch left in progress, live vehicles, time spent in the menu),
\* leaves the initial run state: no vehicles, metrics zero and empty with
\* the run start at the current sim_time, and a controller with main GREEN,
\* side RED, no switch in progress, green accumulator and signal_timer 0,
\* both last-green stamps and last_ai_update at the current sim_time, and
\* empty arrival histories.
C14_StartResets == [][C14_Step]_vars

\* A run just started after the last windows in which a run is abandoned:
\* an earlier run came before it.
C14_Witness ==
    /\ running
    /\ sim_time >= LateEscapeFrom
    /\ metrics.sim_start_time = sim_time
    /\ signal_controller.main_last_green = sim_time
    /\ cars = <<>>

(***************************************************************************)
(* Configuration                                                           *)
(***************************************************************************)
\* The timings the claim calls valid: minimum green below maximum green and
\* every green, yellow and all-red duration positive.
ValidTimings(cfg) ==
    /\ cfg.MIN_GREEN_TIME < cfg.MAX_GREEN_TIME
    /\ cfg.FIXED_GREEN_TIME > 0
    /\ cfg.MIN_GREEN_TIME > 0
    /\ cfg.MAX_GREEN_TIME > 0
    /\ cfg.FIXED_YELLOW_TIME > 0
    /\ cfg.FIXED_ALL_RED_TIME > 0

\* C15: with an invalid configuration (minimum green >= maximum green, or a
\* non-positive green, yellow or all-red duration) the construction of the
\* SignalController is rejected: no run starts and there is no controller
\* of a running state.  Refuted: nothing in the program tests the timings.
C15_InvalidConfigRejected ==
    ~ValidTimings(Config) =>
        /\ ~running
        /\ signal_controller = NoController

(***************************************************************************)
(* Persistence                                                             *)
(***************************************************************************)
\* The file holds a snapshot whose average wait is a number.
ExpectedSnapshot(file) ==
    /\ file.state = "json"
    /\ file.value.type = "object"
    /\ "avg_wait_time" \in DOMAIN file.value.fields
    /\ file.value.fields.avg_wait_time.type = "number"

\* C16: when the file fixed_metrics.json is absent, unreadable, not JSON,
\* JSON that is not the snapshot object, or a snapshot whose average wait is
\* missing or not a number, neither loading nor any later tick of an
\* adaptive run raises an error.  Refuted: the overlay calls .get on
\* whatever json.load returned and compares the average with 0, so that a
\* truthy value of another shape raises once more than 10 vehicles have
\* left.
C16_NoBaselineNeverRaises ==
    ~ExpectedSnapshot(fixed_metrics_file) => exit_status = "alive"

\* A step that ends the run in progress: ESC, or the window being closed.
RunEnds == running /\ (~running' \/ exit_status' = "quit")

\* The file holds the snapshot of the present metrics at the present time.
WrittenNow ==
    fixed_metrics_file' = File("json", Snapshot_data(metrics, sim_time))

FixedEndWrites == RunEnds /\ Fixed => WrittenNow
AdaptiveEndKeeps == RunEnds /\ Adaptive => fixed_metrics_file' = fixed_metrics_file
IdleKeeps == ~running => fixed_metrics_file' = fixed_metrics_file

C17_Step ==
    /\ FixedEndWrites
    /\ AdaptiveEndKeeps
    /\ IdleKeeps

\* C17: the file is written when a run in fixed mode ends (ESC, or the
\* window closed during the run) and then holds that run's average wait,
\* throughput, vehicles exited and elapsed time as of that moment; the end of
\* an adaptive run does not write it; and no step taken while no run is
\* active changes it.  Refuted in its last part: closing the window from the
\* menu after a fixed run saves again, with the time spent in the menu
\* counted in simulation_time.
C17_SnapshotAtRunEnd == [][C17_Step]_vars

(***************************************************************************)
(* The ceiling of the green phase                                          *)
(***************************************************************************)
\* C18: an update of the adaptive controller that finds no switch in
\* progress, at least AI_UPDATE_INTERVAL since the last decision and, the
\* frame counted, a current green of MAX_GREEN_TIME or more, makes the
\* decision and initiates a switch in the decision, whatever the pressures
\* and the time since the last switch: switching is set, at stage 0, stamped
\* with the present time.
C18_Step ==
    (UpdateStep /\ Adaptive /\ ~signal_controller.switching
        /\ sim_time' - signal_controller.last_ai_update >= AI_UPDATE_INTERVAL
        /\ signal_controller.current_green_time + (sim_time' - sim_time)
              >= MAX_GREEN_TIME)
    => /\ DecisionSwitched(signal_controller')
       /\ signal_controller'.switching
       /\ signal_controller'.switch_stage = 0
       /\ signal_controller'.switch_start_time = sim_time'
       /\ signal_controller'.last_switch_time = sim_time'

C18_MaxGreenForcesSwitch == [][C18_Step]_vars

\* The decision has initiated the first switch of a run after MAX_GREEN_TIME
\* of green with the waiting road's pressure, 5.0, below the active road's,
\* 5.6.
C18_Witness ==
    /\ Adaptive
    /\ DecisionSwitched(signal_controller)
    /\ signal_controller.waiting_p = Frac(50, 10)
    /\ signal_controller.active_p = Frac(56, 10)
    /\ sim_time - metrics.sim_start_time >= MAX_GREEN_TIME
    /\ signal_controller.main_last_green = sim_time
    /\ signal_controller.side_last_green = metrics.sim_start_time

(***************************************************************************)
(* The stages of a switch                                                  *)
(***************************************************************************)
\* The adaptive controller of a run is in the yellow stage of a switch.
YellowPhase ==
    /\ running
    /\ Adaptive
    /\ signal_controller.switching
    /\ signal_controller.switch_stage = 0

\* The road that was GREEN at initiation shows YELLOW and the other RED.
ShowsYellow(c) ==
    /\ c.green_before \in Roads
    /\ get_signal_state(c, c.green_before) = "YELLOW"
    /\ get_signal_state(c, Other(c.green_before)) = "RED"

\* C19: in every state between frames in which the adaptive controller is
\* switching at stage 0, the state left by the frame that initiated the
\* switch included, the road that was GREEN at initiation shows YELLOW, the
\* other road shows RED and no road shows GREEN.  Refuted:
\* initiate_signal_switch leaves the signals as they are, and the road turns
\* YELLOW in the next frame's handle_signal_switching.
C19_YellowPhaseShowsYellow ==
    YellowPhase => ShowsYellow(signal_controller)

\* C20: in the adaptive controller, whatever the sizes of the frames, the
\* all-red stage is entered no sooner than FIXED_YELLOW_TIME after the
\* initiation of the switch (last_switch_time), the stage that grants the new
\* green is entered no sooner than FIXED_ALL_RED_TIME after the entry of the
\* all-red stage (switch_start_time, stamped at the entry and kept through
\* the stage), and the new GREEN is granted, in a later frame still, no
\* sooner than FIXED_YELLOW_TIME + FIXED_ALL_RED_TIME after the initiation.
C20_Step ==
    (UpdateStep /\ Adaptive /\ signal_controller.switching) =>
        LET c == signal_controller
            d == signal_controller'
            t == sim_time'
        IN  /\ d.last_switch_time = c.last_switch_time
            /\ d.switching /\ d.switch_stage = c.switch_stage
                  => d.switch_start_time = c.switch_start_time
            /\ c.switch_stage = 0
                  => c.switch_start_time = c.last_switch_time
            /\ c.switch_stage = 0 /\ d.switch_stage = 1
                  => /\ t - c.last_switch_time >= FIXED_YELLOW_TIME
                     /\ d.switch_start_time = t
            /\ c.switch_stage = 1 /\ d.switch_stage = 2
                  => /\ t - c.switch_start_time >= FIXED_ALL_RED_TIME
                     /\ t - c.last_switch_time
                           >= FIXED_YELLOW_TIME + FIXED_ALL_RED_TIME
                     /\ d.switch_start_time = t
            /\ ~d.switching
                  => /\ c.switch_stage = 2
                     /\ t > c.switch_start_time
                     /\ t - c.last_switch_time
                           > FIXED_YELLOW_TIME + FIXED_ALL_RED_TIME
                     /\ GreenRoad(d) \in Roads

C20_ClearanceTiming == [][C20_Step]_vars

\* The new GREEN has just been granted 7 s after the initiation, the switch
\* having passed through frames of 1 s and of 2 s.
C20_Witness ==
    /\ running /\ Adaptive
    /\ ~signal_controller.switching
    /\ signal_controller.log = <<"switching">>
    /\ signal_controller.current_green_time = 0
    /\ GreenRoad(signal_controller) \in Roads
    /\ sim_time - signal_controller.last_switch_time = 7 * FPS

(***************************************************************************)
(* The signals outside a switch                                            *)
(***************************************************************************)
\* C21: in every state of the adaptive controller with no switch in
\* progress exactly one of main and side is GREEN and the other is RED, and
\* in every state ALL_RED shows on both roads or on neither.
C21_OneGreenOutsideSwitch ==
    Adaptive =>
        LET c == signal_controller IN
        /\ ~c.switching =>
              \/ c.main_signal = "GREEN" /\ c.side_signal = "RED"
              \/ c.side_signal = "GREEN" /\ c.main_signal = "RED"
        /\ c.main_signal = "ALL_RED" <=> c.side_signal = "ALL_RED"

\* The side road's green, granted by a switch, has lasted 2 s and the
\* decision loop has just compared the pressures of the two roads.
C21_Witness ==
    /\ running /\ Adaptive
    /\ ~signal_controller.switching
    /\ signal_controller.side_signal = "GREEN"
    /\ signal_controller.main_signal = "RED"
    /\ signal_controller.current_green_time = 2 * FPS
    /\ Decided(signal_controller)

(***************************************************************************)
(* The arrival rate                                                        *)
(***************************************************************************)
\* The entries of a road's arrival history newer than 10 s at time t.
RecentArrivals(c, road, t) ==
    Cardinality({i \in DOMAIN c.arrival_history[road] :
                    t - c.arrival_history[road][i] < ARRIVAL_WINDOW})

Identities(cs) == {<<cs[i].direction, cs[i].spawn_time>> : i \in DOMAIN cs}

\* C23: within one frame the Car.update of every vehicle looks for its car
\* ahead in a list holding the same vehicles, those the frame began with and
\* those it spawned: a vehicle that leaves the screen in the frame is removed
\* only after all have been updated.  Refuted: update_cars removes the
\* vehicle from self.cars as soon as its own update has taken it off screen,
\* and the vehicles after it in the list are updated without it.
C23_Step ==
    UpdateStep =>
        \A dt_sim \in {sim_time' - sim_time}, snapshot \in {Snapshot} :
            \A k \in 1..Len(snapshot) :
                Identities(LiveList(snapshot, k, signal_controller, dt_sim,
                                    incident_active, metrics, sim_time'))
                    = Identities(snapshot)

C25_Step ==
    /\ StartStep => signal_controller'.current_green_time = 0
    /\ (UpdateStep /\ Adaptive) =>
          LET c == signal_controller
              d == signal_controller'
              green == c.current_green_time + (sim_time' - sim_time)
          IN  /\ c.switching /\ ~d.switching => d.current_green_time = 0
              /\ ~c.switching /\ ~d.switching
                    => /\ d.current_green_time = green
                       /\ GreenRoad(d) = GreenRoad(c)
              /\ ~c.switching /\ d.switching
                    => /\ Initiations(d) = 1
                       /\ green >= MIN_GREEN_TIME
              /\ Initiations(d) >= 1 => ~c.switching /\ d.switching

C25_MinimumGreen == [][C25_Step]_vars

\* The decision loop has ended the first green of a run at exactly
\* MIN_GREEN_TIME.
C25_Witness ==
    /\ running /\ Adaptive
    /\ DecisionSwitched(signal_controller)
    /\ signal_controller.green_before = "main"
    /\ sim_time - metrics.sim_start_time = MIN_GREEN_TIME
    /\ signal_controller.side_last_green = metrics.sim_start_time

(***************************************************************************)
(* No road waits forever                                                   *)
(***************************************************************************)
\* The green of road r, begun early enough for its ceiling to lie within the
\* explored time, is showing outside a switch.
GreenOf(r) ==
    /\ running /\ Adaptive
    /\ ~signal_controller.switching
    /\ GreenRoad(signal_controller) = r
    /\ sim_time - signal_controller.current_green_time <= LiveFrom

\* Outside a switch the current green stays below MAX_GREEN_TIME +
\* AI_UPDATE_INTERVAL, and the update that initiates a switch finds it, the
\* frame counted, below MAX_GREEN_TIME + AI_UPDATE_INTERVAL + the frame.
C26_Step ==
    (UpdateStep /\ Adaptive) =>
        LET c == signal_controller
            d == signal_controller'
            dt == sim_time' - sim_time
            green == c.current_green_time + dt
        IN  /\ ~d.switching
                => d.current_green_time < MAX_GREEN_TIME + AI_UPDATE_INTERVAL
            /\ ~c.switching /\ d.switching
                => green < MAX_GREEN_TIME + AI_UPDATE_INTERVAL + dt
            /\ ~c.switching /\ green >= MAX_GREEN_TIME /\ Decided(d)
                => d.switching

\* C26: in adaptive mode, with frames coming for ever, whatever the agents
\* and the pressures, the green of either road is followed by the green of
\* the other, so each road is GREEN again and again and none waits for
\* ever; a green phase is ended by the first decision made at
\* MAX_GREEN_TIME or later, which comes before MAX_GREEN_TIME +
\* AI_UPDATE_INTERVAL + one frame of green.
C26_EachRoadGreenAgain ==
    /\ [][C26_Step]_vars
    /\ GreenOf("main") ~> GreenRoad(signal_controller) = "side"
    /\ GreenOf("side") ~> GreenRoad(signal_controller) = "main"

\* The main road is GREEN again after a green of the side road that lasted
\* MAX_GREEN_TIME or more: the side road's green was ended, and stamped,
\* at least MAX_GREEN_TIME and a whole switch after the main road's.
C26_Witness ==
    /\ running /\ Adaptive
    /\ ~signal_controller.switching
    /\ GreenRoad(signal_controller) = "main"
    /\ signal_controller.side_last_green - signal_controller.main_last_green
          >= MAX_GREEN_TIME + FIXED_YELLOW_TIME + FIXED_ALL_RED_TIME

(***************************************************************************)
(* Anti-starvation under the default timings                               *)
(***************************************************************************)
\* waiting_time as update_ai_signals computes it for controller c at time t.
WaitingTime(c, t) ==
    LET active == IF c.main_signal = "GREEN" THEN "main" ELSE "side"
    IN  t - LastGreen(c, Other(active))

\* C27: in adaptive mode with the default timings and frames of one or two
\* ticks (1/60 s and 1/30 s), outside a switch the time since the waiting
\* road's last-green stamp is at most ANTI_STARVATION_TIME, and no update
\* initiates a switch by the anti-starvation test.
C27_NeverStarved ==
    (running /\ Adaptive) =>
        /\ ~signal_controller.switching
              => WaitingTime(signal_controller, sim_time) <= ANTI_STARVATION_TIME
        /\ \A i \in DOMAIN signal_controller.log :
              signal_controller.log[i] # "starve"

\* In a run started after a wait in the menu the side road is GREEN and the
\* main road has waited through a switch and MAX_GREEN_TIME of side green.
C27_Witness ==
    /\ running /\ Adaptive
    /\ metrics.sim_start_time = TickMenuWait
    /\ ~signal_controller.switching
    /\ GreenRoad(signal_controller) = "side"
    /\ WaitingTime(signal_controller, sim_time)
          >= MAX_GREEN_TIME + FIXED_YELLOW_TIME + FIXED_ALL_RED_TIME

(***************************************************************************)
(* Vehicles of one lane                                                    *)
(***************************************************************************)
\* The position of a vehicle along its axis of travel, growing as it drives.
Progress(car) ==
    IF car.direction = "NORTH" THEN -car.y
    ELSE IF car.direction = "SOUTH" THEN car.y
    ELSE IF car.direction = "EAST" THEN car.x
    ELSE -car.x

\* Vehicle lead is ahead of vehicle follow of the same direction.
AheadOf(lead, follow) ==
    /\ lead.direction = follow.direction
    /\ Progress(lead) > Progress(follow)

C28_Step ==
    UpdateStep =>
        \A i \in DOMAIN cars', j \in DOMAIN cars' :
            AheadOf(Before(cars'[i]), Before(cars'[j]))
                => AheadOf(cars'[i], cars'[j])

\* C28: of two vehicles of the same direction, the one ahead before a frame
\* at multiplier 1.0 or 2.0 is ahead after it, at a positive distance: the
\* follower does not reach or pass the leader.  Refuted: two vehicles spawned
\* in consecutive frames on a road whose signal is not GREEN brake on the same
\* schedule and come to rest on the same point before the stop line.
C28_OrderKept == [][C28_Step]_vars

====
